---- MODULE Spec2Model ----
(***************************************************************************)
(* Model of the statement-text ingester                                    *)
(* src/ingest_statement_text_balrecon_fixsign_v10.py: the single-pass      *)
(* stream parser (parse_stream_simple), the whole-document check scanner   *)
(* (parse_checks_anywhere), the year assigner (assign_year), the sign and  *)
(* category functions (decide_sign, categorize_deposit, apply_rules,       *)
(* categorize_default), the balance and totals parsers, the deposit-run    *)
(* selector (parse_dep_add) with grab_date_run, the section generator      *)
(* iter_deposits_additions, merge_dedup and main, run after run on one     *)
(* dashboard file; and of src/verifiers/pdf_page_cuts.py, the page cropper *)
(* pdf_clip_checking_pages.                                                *)
(*                                                                         *)
(* Specifications.  Spec: the stream parser and the check scanner reading  *)
(* a statement line by line.  SpecYear: assign_year.  SpecCalls: one call  *)
(* of decide_sign, categorize_deposit, the rules-then-default category or  *)
(* parse_begin_end_balances.  SpecParses: calls of parse_stream_simple,    *)
(* one after another in one process.  SpecDeposits: one call of            *)
(* parse_dep_add.  SpecRun: runs of main, each from its arguments to SAVE. *)
(* SpecLoops: the loops of parse_stream_simple, grab_date_run and the      *)
(* fallback scan of parse_dep_add, one iteration per step, on a given      *)
(* document; SpecLoopsFair: the same with the loops kept running.          *)
(* SpecMerge: merge_dedup, called twice with the same new rows.  SpecIter: *)
(* iter_deposits_additions line by line.  SpecClip:                        *)
(* pdf_clip_checking_pages page by page.                                   *)
(*                                                                         *)
(* Text.  A line is a sequence of whitespace-separated tokens; the empty   *)
(* sequence is the empty line.  The patterns of the source are translated  *)
(* to operators on token sequences, exact for lines of this shape:         *)
(*   - a word holds letters only and is written upper-case, except the    *)
(*     words "netflix" and "kroger" of the rules, which exist in both      *)
(*     cases (the patterns of the parsers ignore case: re.I, .upper();     *)
(*     apply_rules does not always);                                       *)
(*   - a number token is a run of d digits;                                *)
(*   - a date token is written MM/DD with two digits each and DD <= 31;    *)
(*   - a money token is written with thousands separators and two          *)
(*     decimals, below 100,000.00, optionally with a leading '-', a '$',   *)
(*     a trailing '-', or enclosed in parentheses;                         *)
(*   - a mark is '^' or '*';                                               *)
(*   - a number token of one or two digits is not followed by a money      *)
(*     token with a leading '-' (DATE_LINE would read "3 -4.56" as the     *)
(*     date 3-4).                                                          *)
(* Amounts are integers in cents, so that -0.0 and 0.0 are both 0.         *)
(***************************************************************************)
EXTENDS Integers, Sequences, FiniteSets, TLC

\* ------------------------------------------------------------------ tokens

W(s) == [k |-> "word", s |-> s]
Num(v, d) == [k |-> "num", v |-> v, d |-> d]
Mark == [k |-> "mark"]
Dt(mm, dd) == [k |-> "date", mm |-> mm, dd |-> dd]
\* digits of a money token with its decorations: lead '-', '$', trailing '-', '( )'
Money(cents, lead, dollar, trail, paren) ==
    [k |-> "amt", cents |-> cents, lead |-> lead, dollar |-> dollar,
     trail |-> trail, paren |-> paren]
Plain(cents) == Money(cents, FALSE, FALSE, FALSE, FALSE)
\* the "#<number>" part of the description of a check candidate
HashNum(n) == [k |-> "hashnum", v |-> n.v, d |-> n.d]

IsWord(t, s) == t.k = "word" /\ t.s = s
IsAmt(t) == t.k = "amt"

Abs(x) == IF x < 0 THEN -x ELSE x

RECURSIVE Pow10(_)
Pow10(n) == IF n = 0 THEN 1 ELSE 10 * Pow10(n - 1)

\* ------------------------------------------------------------ clean_amount

\* clean_amount(a): the sign flags are collected in the order of the source,
\* the digits are then read as a number.
clean_amount(a) ==
    LET neg1 == a.trail                       \* s.endswith('-')
        neg2 == neg1 \/ a.paren               \* '(' ... ')'
        neg3 == neg2 \/ a.lead                \* s.startswith('-') after '$', ',' are removed
        val  == a.cents
    IN  IF neg3 THEN -val ELSE val

\* ------------------------------------------------------------- assign_year

\* assign_year without the test end_month == 1 of the prior-month branch
assign_year_prior(end_year, end_month, txn_month) ==
    IF txn_month = end_month
    THEN end_year
    ELSE IF txn_month = (IF end_month > 1 THEN end_month - 1 ELSE 12)
         THEN end_year - 1
         ELSE end_year

assign_year(end_year, end_month, txn_month) ==
    IF txn_month = end_month
    THEN end_year
    ELSE IF txn_month = (IF end_month > 1 THEN end_month - 1 ELSE 12)
         THEN (IF end_month = 1 /\ txn_month = 12 THEN end_year - 1 ELSE end_year)
         ELSE end_year

\* ---------------------------------------------------------------- patterns

NoMatch == [ok |-> FALSE]

\* AMT_RE.finditer(line): the money tokens of the line, left to right, each with
\* its index and the text the pattern captures.  The first alternative ends with
\* \s*-?, so a money token that is not parenthesised and has no '-' of its own
\* takes the leading '-' of a money token that follows it directly; that token
\* is then matched without it.
RECURSIVE AmtFind(_, _, _)
AmtFind(line, j, stolen) ==
    IF j > Len(line) THEN << >>
    ELSE IF ~IsAmt(line[j]) THEN AmtFind(line, j + 1, FALSE)
    ELSE LET t == line[j]
             steals == /\ ~t.paren /\ ~t.trail
                       /\ j < Len(line) /\ IsAmt(line[j + 1])
                       /\ line[j + 1].lead
             txt == [cents |-> t.cents, lead |-> t.lead /\ ~stolen,
                     dollar |-> t.dollar, trail |-> t.trail \/ steals,
                     paren |-> t.paren]
         IN  << [at |-> j, txt |-> txt] >> \o AmtFind(line, j + 1, steals)

AMT_RE(line) == AmtFind(line, 1, FALSE)

\* the text (?P<amt>-?\$?\d[\d,]*\.\d{2}) captures of a money token: never the
\* parentheses nor a trailing '-'
CheckAmtText(t) ==
    [cents |-> t.cents, lead |-> t.lead, dollar |-> t.dollar,
     trail |-> FALSE, paren |-> FALSE]

\* DATE_LINE.match(line): the line starts with a month 1..12 and a day 1..31
DATE_LINE(line) ==
    IF /\ Len(line) >= 1 /\ line[1].k = "date"
       /\ line[1].mm \in 1..12 /\ line[1].dd \in 1..31
    THEN [ok |-> TRUE, mm |-> line[1].mm, dd |-> line[1].dd, end |-> 1]
    ELSE NoMatch

\* CHECK_LINE_RE1: [CHECK] <3-6 digits> [^|*] <d/d> <money>
CHECK_LINE_RE1(line) ==
    LET p == IF Len(line) >= 1 /\ IsWord(line[1], "CHECK") THEN 2 ELSE 1
        q == IF Len(line) >= p + 1 /\ line[p + 1].k = "mark" THEN p + 2 ELSE p + 1
    IN  IF /\ Len(line) >= q + 1
           /\ line[p].k = "num" /\ line[p].d \in 3..6
           /\ line[q].k = "date"
           /\ IsAmt(line[q + 1]) /\ ~line[q + 1].paren
        THEN [ok |-> TRUE, chkno |-> [v |-> line[p].v, d |-> line[p].d], mm |-> line[q].mm,
              dd |-> line[q].dd, amt |-> CheckAmtText(line[q + 1])]
        ELSE NoMatch

\* index of the first money token of line at or after j, 0 when there is none
RECURSIVE FirstAmtFrom(_, _)
FirstAmtFrom(line, j) ==
    IF j > Len(line) THEN 0
    ELSE IF IsAmt(line[j]) THEN j
    ELSE FirstAmtFrom(line, j + 1)

\* CHECK_LINE_RE2: <d/d> [CHECK] <3-6 digits> ... <money>.  \d{3,6} takes the
\* first six digits of a longer number, and also the three digits that start a
\* bare money token from 100.00 to 999.99; .*? then runs to the first money
\* text that follows.
CHECK_LINE_RE2(line) ==
    IF ~(Len(line) >= 2 /\ line[1].k = "date") THEN NoMatch
    ELSE
    LET p == IF IsWord(line[2], "CHECK") THEN 3 ELSE 2
        t == line[p]
        isnum == t.k = "num" /\ t.d >= 3
        isbare == /\ IsAmt(t) /\ ~t.lead /\ ~t.dollar /\ ~t.paren
                  /\ t.cents \in 10000..99999
        a == FirstAmtFrom(line, p + 1)
    IN  IF Len(line) >= p /\ (isnum \/ isbare) /\ a > 0
        THEN [ok |-> TRUE,
              chkno |-> IF isnum
                        THEN (IF t.d > 6
                              THEN [v |-> t.v \div Pow10(t.d - 6), d |-> 6]
                              ELSE [v |-> t.v, d |-> t.d])
                        ELSE [v |-> t.cents \div 100, d |-> 3],
              mm |-> line[1].mm, dd |-> line[1].dd,
              amt |-> CheckAmtText(line[a])]
        ELSE NoMatch

\* CHECK_LINE_RE: <4+ digits> <^|*> <dd/dd> <money>
CHECK_LINE_RE(line) ==
    IF /\ Len(line) >= 4
       /\ line[1].k = "num" /\ line[1].d >= 4
       /\ line[2].k = "mark"
       /\ line[3].k = "date"
       /\ IsAmt(line[4]) /\ ~line[4].paren
    THEN [ok |-> TRUE, chkno |-> [v |-> line[1].v, d |-> line[1].d], mm |-> line[3].mm,
          dd |-> line[3].dd, amt |-> CheckAmtText(line[4])]
    ELSE NoMatch

\* CHECK_LINE_RE1.match(line) or CHECK_LINE_RE2.match(line) or CHECK_LINE_RE.match(line)
CheckRow(line) ==
    IF CHECK_LINE_RE1(line).ok THEN CHECK_LINE_RE1(line)
    ELSE IF CHECK_LINE_RE2(line).ok THEN CHECK_LINE_RE2(line)
    ELSE CHECK_LINE_RE(line)

\* MAJOR_BREAK: ^\s*(TRANSACTION\s+DETAIL|DATE\s+DESCRIPTION\s+AMOUNT\s+BALANCE)\b
MAJOR_BREAK(line) ==
    \/ /\ Len(line) >= 2
       /\ IsWord(line[1], "TRANSACTION") /\ IsWord(line[2], "DETAIL")
    \/ /\ Len(line) >= 4
       /\ IsWord(line[1], "DATE") /\ IsWord(line[2], "DESCRIPTION")
       /\ IsWord(line[3], "AMOUNT") /\ IsWord(line[4], "BALANCE")

\* ' BALANCE' in line.upper(): a word BALANCE that is not the first token
HasBalanceMarker(line) ==
    \E j \in 2..Len(line) : IsWord(line[j], "BALANCE")

\* ------------------------------------------------------------------ inputs

Blank     == << >>
Noise     == << W("TOTAL"), W("CHECKS"), W("PAID") >>
BreakA    == << W("TRANSACTION"), W("DETAIL") >>
BreakB    == << W("DATE"), W("DESCRIPTION"), W("AMOUNT"), W("BALANCE") >>
\* 1023 ^ 01/06 100.00
ChkRow    == << Num(1023, 4), Mark, Dt(1, 6), Plain(10000) >>
\* CHECK 1024 12/28 -45.00
ChkNeg    == << W("CHECK"), Num(1024, 4), Dt(12, 28), Money(4500, TRUE, FALSE, FALSE, FALSE) >>
\* CHECK 1023 01/06 -100.00
ChkAgain  == << W("CHECK"), Num(1023, 4), Dt(1, 6), Money(10000, TRUE, FALSE, FALSE, FALSE) >>
\* 1234567 ^ 01/06 0.00
ChkZero   == << Num(1234567, 7), Mark, Dt(1, 6), Plain(0) >>
\* 02/30 CHECK 1026 PAID (50.00)
ChkDated  == << Dt(2, 30), W("CHECK"), Num(1026, 4), W("PAID"),
                Money(5000, FALSE, FALSE, FALSE, TRUE) >>
\* 01/05 DEPOSIT 500.00
DepRow    == << Dt(1, 5), W("DEPOSIT"), Plain(50000) >>
\* 01/07 ACH DEBIT (75.00)
NegRow    == << Dt(1, 7), W("ACH"), W("DEBIT"), Money(7500, FALSE, FALSE, FALSE, TRUE) >>
\* 01/07 CARD PURCHASE 20.00 1,305.00
TwoAmts   == << Dt(1, 7), W("CARD"), W("PURCHASE"), Plain(2000), Plain(130500) >>
\* 01/08 CONTINUED
NoAmt     == << Dt(1, 8), W("CONTINUED") >>
\* 01/04 FEE BALANCE 0.00
ZeroRow   == << Dt(1, 4), W("FEE"), W("BALANCE"), Plain(0) >>
\* 01/09 ONLINE PAYMENT TO CREDIT CARD 25.00
OnlinePay == << Dt(1, 9), W("ONLINE"), W("PAYMENT"), W("TO"), W("CREDIT"), W("CARD"),
                Plain(2500) >>
\* 01/05 500.00 1.00
TwoBare   == << Dt(1, 5), Plain(50000), Plain(100) >>

\* the lines an input is drawn from
Catalog == << Blank, Noise, BreakA, BreakB, ChkRow, ChkNeg, ChkZero, ChkDated,
              DepRow, NegRow, TwoAmts, NoAmt, ZeroRow, OnlinePay, TwoBare, ChkAgain >>
\* the lines of the longer inputs
CoreCatalog == << Blank, BreakA, ChkRow, DepRow, NoAmt >>

MaxLines == 3
MaxCoreLines == 6

InCore(l) == \E c \in 1..Len(CoreCatalog) : CoreCatalog[c] = l

\* an input is at most MaxLines lines of Catalog, or at most MaxCoreLines lines
\* of CoreCatalog
IsInput(ls) ==
    \/ Len(ls) <= MaxLines
    \/ Len(ls) <= MaxCoreLines /\ \A j \in 1..Len(ls) : InCore(ls[j])

\* the statement anchors (end_year, end_month) an input comes with
Anchors == { << 2019, 1 >> }

\* the arguments assign_year is called with: NumYears years from FirstYear on,
\* every end month and every transaction month
FirstYear == 2018
NumYears == 3
Years == FirstYear..(FirstYear + NumYears - 1)
Months == 1..12

\* ------------------------------------------------------------------- state

VARIABLES
    entry,          \* the function under execution: "main", "parse_checks_anywhere", ...
    pc,             \* where its execution stands
    end_year,       \* the statement anchor
    end_month,
    lines,          \* the lines of the input read so far
    i,              \* parse_stream_simple: the loop index
    sec_idx,        \* parse_stream_simple: -1 none, 0 deposits, 1 checks, 2 atm, 3 electronic
    gap_after_atm,  \* parse_stream_simple
    out,            \* parse_stream_simple: the candidates (Date, Description, Amount, _src)
    df,             \* main: the data frame of the parsed rows
    seen,           \* parse_checks_anywhere: the keys (chkno, date, amt) met
    chk_out,        \* parse_checks_anywhere: the check rows found
    y_in,           \* assign_year: the arguments (end_year, end_month, txn_month)
    y_out,          \* assign_year: the result, 0 before the call
    f_in,           \* decide_sign, categorize_deposit, apply_rules: the arguments
    f_out,          \* their result
    file,           \* main: the statement file of this run (--input)
    force,          \* main: --force
    rules,          \* main: the file of --rules and its rows
    wb,             \* main: the workbook in memory
    disk,           \* the workbook file (--dashboard) as persisted
    begin_bal,      \* main: the balances parsed from the statement text
    end_bal,
    runs            \* the runs of main started so far

vars == << entry, pc, end_year, end_month, lines, i, sec_idx, gap_after_atm, out,
           df, seen, chk_out, y_in, y_out, f_in, f_out,
           file, force, rules, wb, disk, begin_bal, end_bal, runs >>

streamVars == << i, sec_idx, gap_after_atm, out >>
scanVars == << seen, chk_out >>
yearVars == << y_in, y_out >>
callVars == << f_in, f_out >>
runVars == << file, force, rules, wb, disk, begin_bal, end_bal, runs >>

\* no value: None, NaT, no file
Null == [k |-> "null"]
anchorVars == << entry, end_year, end_month >>

\* --------------------------------------------------- parse_stream_simple

\* the parser stops at line, in section sec
StopsAlways(sec, line) == MAJOR_BREAK(line)

StopsAt(sec, line) == sec >= 3 /\ MAJOR_BREAK(line)

\* a check row always enters CHECKS
SectionAlwaysChecks(sec) == 1

\* the section after a check row
SectionOnCheck(sec) == IF sec < 1 THEN 1 ELSE sec

\* a check row keeps the sign of its amount text
CheckKeepsSign(amt) == amt

\* the signed amount of a check row
CheckSigned(amt) == -Abs(amt)

\* the candidate of a check row
CheckCandidate(m, ey, em) ==
    LET year == assign_year(ey, em, m.mm)
        amt  == clean_amount(m.amt)
        desc == << W("CHECK"), HashNum(m.chkno) >>
    IN  [date |-> << year, m.mm, m.dd >>, desc |-> desc,
         amount |-> CheckSigned(amt), src |-> "CHECKS"]

\* the last money match, whatever the line holds
SelectLast(line, amatches) == amatches[Len(amatches)]

\* the money match a date-led row takes its amount from
SelectAmount(line, amatches) ==
    LET take_first == HasBalanceMarker(line) \/ Len(amatches) > 1
    IN  IF take_first THEN amatches[1] ELSE amatches[Len(amatches)]

\* the transitions with CHECKS never left for ATM
DateTransitionNoAtm(sec, gap) ==
    IF sec = -1 THEN [sec_idx |-> 0, gap_after_atm |-> gap]
    ELSE IF sec = 2 /\ gap THEN [sec_idx |-> 3, gap_after_atm |-> gap]
    ELSE [sec_idx |-> sec, gap_after_atm |-> gap]

\* the transitions with ATM left for ELECTRONIC by any date-led row
DateTransitionNoGap(sec, gap) ==
    IF sec = -1 THEN [sec_idx |-> 0, gap_after_atm |-> gap]
    ELSE IF sec = 1 THEN [sec_idx |-> 2, gap_after_atm |-> FALSE]
    ELSE IF sec = 2 THEN [sec_idx |-> 3, gap_after_atm |-> gap]
    ELSE [sec_idx |-> sec, gap_after_atm |-> gap]

\* the section transitions of a date-led row
DateTransition(sec, gap) ==
    IF sec = -1 THEN [sec_idx |-> 0, gap_after_atm |-> gap]
    ELSE IF sec = 1 THEN [sec_idx |-> 2, gap_after_atm |-> FALSE]
    ELSE IF sec = 2 /\ gap THEN [sec_idx |-> 3, gap_after_atm |-> gap]
    ELSE [sec_idx |-> sec, gap_after_atm |-> gap]

\* signing per section with the ELECTRONIC rows keeping their sign
SignKeepsElec(sec, amt) ==
    IF sec = 0 THEN [signed |-> amt, src |-> "DEP_ADD"]
    ELSE IF sec = 2 THEN [signed |-> -Abs(amt), src |-> "ATM"]
    ELSE IF sec >= 3 THEN [signed |-> amt, src |-> "ELEC"]
    ELSE [signed |-> amt, src |-> "OTHER"]

\* signing per section
SignBySection(sec, amt) ==
    IF sec = 0 THEN [signed |-> amt, src |-> "DEP_ADD"]
    ELSE IF sec = 2 THEN [signed |-> -Abs(amt), src |-> "ATM"]
    ELSE IF sec >= 3 THEN [signed |-> -Abs(amt), src |-> "ELEC"]
    ELSE [signed |-> amt, src |-> "OTHER"]

\* the candidate of a date-led row with the money match a, in section sec
DateCandidate(line, mdate, a, sec, ey, em) ==
    LET year == assign_year(ey, em, mdate.mm)
        amt  == clean_amount(a.txt)
        desc == SubSeq(line, mdate.end + 1, a.at - 1)
        s    == SignBySection(sec, amt)
    IN  [date |-> << year, mdate.mm, mdate.dd >>, desc |-> desc,
         amount |-> s.signed, src |-> s.src]

\* the gap set in every section
GapAlways(sec, gap) == TRUE

\* what a blank line, or a line that is neither a check row nor date-led, does
\* to gap_after_atm
GapOnOther(sec, gap) == IF sec = 2 THEN TRUE ELSE gap

\* the iteration with a date-led line without money falling through to the
\* lines that are neither check rows nor date-led
StreamBodyFallsThrough(st, line, ey, em) ==
    LET next == [st EXCEPT !.i = st.i + 1]
        mchk == CheckRow(line)
        mdate == DATE_LINE(line)
        amatches == AMT_RE(line)
    IN  IF line = << >>
        THEN [next EXCEPT !.gap_after_atm = GapOnOther(st.sec_idx, st.gap_after_atm)]
        ELSE IF StopsAt(st.sec_idx, line)
        THEN [st EXCEPT !.brk = TRUE]
        ELSE IF mchk.ok
        THEN [next EXCEPT !.sec_idx = SectionOnCheck(st.sec_idx),
                          !.out = Append(st.out, CheckCandidate(mchk, ey, em))]
        ELSE IF mdate.ok /\ amatches # << >>
        THEN LET a == SelectAmount(line, amatches)
                 t == DateTransition(st.sec_idx, st.gap_after_atm)
             IN  [next EXCEPT !.sec_idx = t.sec_idx,
                              !.gap_after_atm = t.gap_after_atm,
                              !.out = Append(st.out,
                                  DateCandidate(line, mdate, a, t.sec_idx, ey, em))]
        ELSE [next EXCEPT !.gap_after_atm = GapOnOther(st.sec_idx, st.gap_after_atm)]

\* one iteration of the loop on line: the locals after it, brk when it breaks
StreamBody(st, line, ey, em) ==
    LET next == [st EXCEPT !.i = st.i + 1]
        mchk == CheckRow(line)
        mdate == DATE_LINE(line)
        amatches == AMT_RE(line)
    IN  IF line = << >>
        THEN [next EXCEPT !.gap_after_atm = GapOnOther(st.sec_idx, st.gap_after_atm)]
        ELSE IF StopsAt(st.sec_idx, line)
        THEN [st EXCEPT !.brk = TRUE]
        ELSE IF mchk.ok
        THEN [next EXCEPT !.sec_idx = SectionOnCheck(st.sec_idx),
                          !.out = Append(st.out, CheckCandidate(mchk, ey, em))]
        ELSE IF mdate.ok
        THEN IF amatches = << >>
             THEN next
             ELSE LET a == SelectAmount(line, amatches)
                      t == DateTransition(st.sec_idx, st.gap_after_atm)
                  IN  [next EXCEPT !.sec_idx = t.sec_idx,
                                   !.gap_after_atm = t.gap_after_atm,
                                   !.out = Append(st.out,
                                       DateCandidate(line, mdate, a, t.sec_idx, ey, em))]
        ELSE [next EXCEPT !.gap_after_atm = GapOnOther(st.sec_idx, st.gap_after_atm)]

\* while i < N: the loop reads the next line of the input
StreamLine ==
    /\ entry = "main" /\ pc = "stream"
    /\ \E c \in 1..Len(Catalog) :
         LET line == Catalog[c]
             st == [i |-> i, sec_idx |-> sec_idx, gap_after_atm |-> gap_after_atm,
                    out |-> out, brk |-> FALSE]
             nx == StreamBody(st, line, end_year, end_month)
         IN  /\ IsInput(Append(lines, line))
             /\ lines' = Append(lines, line)
             /\ i' = nx.i
             /\ sec_idx' = nx.sec_idx
             /\ gap_after_atm' = nx.gap_after_atm
             /\ out' = nx.out
             /\ pc' = IF nx.brk THEN "frame" ELSE "stream"
    /\ UNCHANGED << anchorVars, df, scanVars, yearVars, callVars, runVars >>

\* i = N: the input is exhausted, the candidates are returned
StreamReturn ==
    /\ entry = "main" /\ pc = "stream"
    /\ pc' = "frame"
    /\ UNCHANGED << anchorVars, lines, streamVars, df, scanVars, yearVars, callVars, runVars >>

\* ------------------------------------------------------------------ main

IsLeap(y) == (y % 4 = 0 /\ y % 100 # 0) \/ y % 400 = 0

DaysInMonth(y, m) ==
    IF m = 2 THEN (IF IsLeap(y) THEN 29 ELSE 28)
    ELSE IF m \in {4, 6, 9, 11} THEN 30 ELSE 31

\* pd.to_datetime(..., errors="coerce") gives a date, not NaT
ValidDate(d) == d[2] \in 1..12 /\ d[3] \in 1..DaysInMonth(d[1], d[2])

DateKey(d) == d[1] * 10000 + d[2] * 100 + d[3]

RECURSIVE DropNa(_)
DropNa(rows) ==
    IF rows = << >> THEN << >>
    ELSE IF ValidDate(Head(rows).date) THEN << Head(rows) >> \o DropNa(Tail(rows))
    ELSE DropNa(Tail(rows))

\* row r put into the rows sorted by date, after the rows of the same date
RECURSIVE InsertByDate(_, _)
InsertByDate(sorted, r) ==
    IF sorted = << >> THEN << r >>
    ELSE IF DateKey(r.date) < DateKey(Head(sorted).date) THEN << r >> \o sorted
    ELSE << Head(sorted) >> \o InsertByDate(Tail(sorted), r)

RECURSIVE SortByDate(_)
SortByDate(rows) ==
    IF rows = << >> THEN << >>
    ELSE InsertByDate(SortByDate(SubSeq(rows, 1, Len(rows) - 1)), rows[Len(rows)])

\* the words ws stand in desc, one after the other, from position j
PhraseAt(desc, j, ws) ==
    /\ j + Len(ws) - 1 <= Len(desc)
    /\ \A n \in 1..Len(ws) : IsWord(desc[j + n - 1], ws[n])

ContainsPhrase(desc, ws) == \E j \in 1..Len(desc) : PhraseAt(desc, j, ws)

ContainsAny(desc, phrases) == \E ws \in phrases : ContainsPhrase(desc, ws)

neg_kw == { << "ONLINE", "PAYMENT" >>, << "PAYMENT" >>, << "ACH", "DEBIT" >>,
            << "DEBIT", "CARD" >>, << "WITHDRAWAL" >>, << "ATM", "WITHDRAWAL" >>,
            << "TRANSFER", "TO" >>, << "BILL", "PAY" >>, << "ZELLE", "TO" >>,
            << "VENMO", "CASHOUT" >>, << "CARD", "PURCHASE" >>, << "POS", "PURCHASE" >> }

pos_kw == { << "REFUND" >>, << "REVERSAL" >>, << "RETURN", "CREDIT" >>, << "INTEREST" >>,
            << "DEPOSIT" >>, << "ZELLE", "FROM" >>, << "TRANSFER", "FROM" >>,
            << "CREDIT" >>, << "REIMBURSE" >> }

\* desc_all.str.contains(r"online payment.*to .*credit card")
fix_mask(desc) ==
    \E a, b, c \in 1..Len(desc) :
        /\ PhraseAt(desc, a, << "ONLINE", "PAYMENT" >>)
        /\ a + 2 <= b /\ IsWord(desc[b], "TO")
        /\ b < c /\ PhraseAt(desc, c, << "CREDIT", "CARD" >>)

\* rows: the parsed rows with a valid date, sorted by date
BuildFrame ==
    /\ entry = "main" /\ pc = "frame"
    /\ df' = SortByDate(DropNa(out))
    /\ pc' = IF df' = << >> THEN "done" ELSE "sign"
    /\ UNCHANGED << anchorVars, lines, streamVars, scanVars, yearVars, callVars, runVars >>

\* SIGNING without the targeted fix of the online payments to a credit card
SignRecordNoFix(r) ==
    LET mask_dep == r.src = "DEP_ADD"
        mask_neg == r.src \in {"CHECKS", "ATM", "ELEC"}
        a1 == IF mask_dep THEN Abs(r.amount) ELSE r.amount
        a2 == IF mask_neg THEN -Abs(a1) ELSE a1
    IN  [r EXCEPT !.amount = a2]

\* the amount of record r after SIGNING (section-first)
SignRecord(r) ==
    LET mask_dep == r.src = "DEP_ADD"
        mask_neg == r.src \in {"CHECKS", "ATM", "ELEC"}
        unknown  == ~(mask_dep \/ mask_neg)
        a1 == IF mask_dep THEN Abs(r.amount) ELSE r.amount
        a2 == IF mask_neg THEN -Abs(a1) ELSE a1
        a3 == IF unknown /\ ContainsAny(r.desc, neg_kw) THEN -Abs(a2) ELSE a2
        a4 == IF unknown /\ ContainsAny(r.desc, pos_kw) THEN Abs(a3) ELSE a3
        a5 == IF fix_mask(r.desc) THEN -Abs(a4) ELSE a4
    IN  [r EXCEPT !.amount = a5]

SigningPass ==
    /\ entry = "main" /\ pc = "sign"
    /\ df' = [n \in 1..Len(df) |-> SignRecord(df[n])]
    /\ pc' = "done"
    /\ UNCHANGED << anchorVars, lines, streamVars, scanVars, yearVars, callVars, runVars >>

\* --------------------------------------------------- parse_checks_anywhere

\* the signed amount of a check found by the scanner
ScanSigned(amt) == -Abs(amt)

\* the scanner forgets the keys it met
Forget(seen_keys, key) == seen_keys

\* seen.add(key)
Remember(seen_keys, key) == seen_keys \cup {key}

\* one iteration of the scanner on line: seen and out after it
ScanBody(st, line, ey, em) ==
    LET m == CheckRow(line)
        year == assign_year(ey, em, m.mm)
        amt == clean_amount(m.amt)
        date == << year, m.mm, m.dd >>
        key == << m.chkno, date, Abs(amt) >>
    IN  IF ~m.ok THEN st
        ELSE IF key \in st.seen THEN st
        ELSE [seen |-> Remember(st.seen, key),
              out |-> Append(st.out,
                         [date |-> date, desc |-> << W("CHECK"), HashNum(m.chkno) >>,
                          amount |-> ScanSigned(amt)])]

\* for raw in all_lines: the scanner reads the next line of the input
ScanLine ==
    /\ entry = "parse_checks_anywhere" /\ pc = "scan"
    /\ \E c \in 1..Len(Catalog) :
         LET line == Catalog[c]
             nx == ScanBody([seen |-> seen, out |-> chk_out], line, end_year, end_month)
         IN  /\ IsInput(Append(lines, line))
             /\ lines' = Append(lines, line)
             /\ seen' = nx.seen
             /\ chk_out' = nx.out
    /\ UNCHANGED << anchorVars, pc, streamVars, df, yearVars, callVars, runVars >>

\* the input is exhausted, the rows are returned
ScanReturn ==
    /\ entry = "parse_checks_anywhere" /\ pc = "scan"
    /\ pc' = "done"
    /\ UNCHANGED << anchorVars, lines, streamVars, df, scanVars, yearVars, callVars, runVars >>

\* ------------------------------------------------------------- assign_year

\* the call assign_year(end_year, end_month, txn_month)
AssignYearCall ==
    /\ entry = "assign_year" /\ pc = "call"
    /\ y_out' = assign_year(y_in[1], y_in[2], y_in[3])
    /\ pc' = "done"
    /\ UNCHANGED << anchorVars, lines, streamVars, df, scanVars, y_in, callVars, runVars >>

\* ------------------------------------------------- text of a description

\* The words of a statement are those of Vocabulary, written as the
\* statement writes them (upper case, or lower case for "netflix" and
\* "kroger").  The tests `kw in u`, u.startswith(kw) and re.search of a
\* literal are decided word by word from
\* three tables that list, for the words of Vocabulary, every text of a
\* keyword that occurs in, starts or ends a longer word.

Vocabulary ==
    { "TRANSFER", "FROM", "TO", "PERSHING", "DEPOSIT", "PAYMENT", "INTEREST",
      "STORE", "DEBIT", "UTILITY", "REFUND", "RETURNS", "PAYROLL", "CHECK",
      "MOBILE", "ACH", "CO", "NETFLIX", "KROGER", "VEGAS", "ONLINE",
      "TOTAL", "CHECKS", "PAID", "DETAIL", "TRANSACTION", "DATE", "DESCRIPTION",
      "AMOUNT", "BALANCE", "CARD", "PURCHASE", "CONTINUED", "FEE", "CREDIT",
      "CHASE", "BETTER", "BANKING", "CHECKING", "BEGINNING", "ENDING", "PENDING",
      "DEPOSITS", "ADDITIONS", "WITHDRAWALS", "AND", "OTHER", "netflix", "kroger" }

\* str.upper() on a word
upper_word(s) ==
    CASE s = "netflix" -> "NETFLIX"
      [] s = "kroger" -> "KROGER"
      [] OTHER -> s

\* str.upper() on a description
upper(desc) ==
    [n \in 1..Len(desc) |->
        IF desc[n].k = "word" THEN W(upper_word(desc[n].s)) ELSE desc[n]]

\* << k, w >>: the text k occurs in the word w, k # w
Within ==
    { << "ADDITION", "ADDITIONS" >>, << "CHASE", "PURCHASE" >>, << "CHECK", "CHECKING" >>,
      << "CHECK", "CHECKS" >>, << "CO", "CONTINUED" >>, << "DEP", "DEPOSIT" >>,
      << "DEP", "DEPOSITS" >>, << "DEPOSIT", "DEPOSITS" >>,
      << "ENDING", "PENDING" >>, << "GAS", "VEGAS" >>, << "P", "DEPOSIT" >>,
      << "P", "DEPOSITS" >>, << "P", "DESCRIPTION" >>, << "P", "PAID" >>,
      << "P", "PAYMENT" >>, << "P", "PAYROLL" >>, << "P", "PENDING" >>,
      << "P", "PERSHING" >>, << "P", "PURCHASE" >>, << "POS", "DEPOSIT" >>,
      << "POS", "DEPOSITS" >>, << "RETURN", "RETURNS" >>, << "TO", "STORE" >>,
      << "TO", "TOTAL" >>, << "WITHDRAWAL", "WITHDRAWALS" >> }

\* << k, w >>: the word w starts with the text k, k # w
Starts ==
    { << "ADDITION", "ADDITIONS" >>, << "CHECK", "CHECKING" >>, << "CHECK", "CHECKS" >>,
      << "CO", "CONTINUED" >>, << "DEP", "DEPOSIT" >>, << "DEP", "DEPOSITS" >>,
      << "DEPOSIT", "DEPOSITS" >>, << "P", "PAID" >>, << "P", "PAYMENT" >>,
      << "P", "PAYROLL" >>, << "P", "PENDING" >>, << "P", "PERSHING" >>,
      << "P", "PURCHASE" >>, << "RETURN", "RETURNS" >>, << "TO", "TOTAL" >>,
      << "WITHDRAWAL", "WITHDRAWALS" >> }

\* << k, w >>: the word w ends with the text k, k # w
Ends ==
    { << "CHASE", "PURCHASE" >>, << "ENDING", "PENDING" >>,
      << "GAS", "VEGAS" >> }

\* the text k occurs in, starts, ends the token t
HasIn(t, k) == t.k = "word" /\ (t.s = k \/ << k, t.s >> \in Within)
HasStart(t, k) == t.k = "word" /\ (t.s = k \/ << k, t.s >> \in Starts)
HasEnd(t, k) == t.k = "word" /\ (t.s = k \/ << k, t.s >> \in Ends)

\* the text kw (its words, separated by one space) occurs in desc from token j
TextAt(kw, desc, j) ==
    LET n == Len(kw)
    IN  /\ j + n - 1 <= Len(desc)
        /\ IF n = 1 THEN HasIn(desc[j], kw[1])
           ELSE /\ HasEnd(desc[j], kw[1])
                /\ \A m \in 2..(n - 1) : IsWord(desc[j + m - 1], kw[m])
                /\ HasStart(desc[j + n - 1], kw[n])

\* kw in desc
InText(kw, desc) == \E j \in 1..Len(desc) : TextAt(kw, desc, j)

\* desc.startswith(kw)
StartsText(kw, desc) ==
    LET n == Len(kw)
    IN  /\ n <= Len(desc)
        /\ \A m \in 1..(n - 1) : IsWord(desc[m], kw[m])
        /\ HasStart(desc[n], kw[n])

\* ------------------------------------------------------------ decide_sign

POS_SIGN_HINTS ==
    << << "DEPOSIT" >>, << "ACH", "CREDIT" >>, << "CREDIT" >>, << "PAYROLL" >>,
       << "DIRECT", "DEP" >>, << "ZELLE", "CREDIT" >>, << "MOBILE", "DEPOSIT" >>,
       << "CHECK", "DEPOSIT" >>, << "ATM", "CHECK", "DEPOSIT" >>, << "RETURN" >>,
       << "RETURNS" >>, << "REFUND" >>, << "REVERSAL" >>, << "ADJUSTMENT" >>,
       << "PERSHING" >>, << "INCOME", "PMT" >> >>

NEG_SIGN_HINTS ==
    << << "WITHDRAWAL" >>, << "DEBIT" >>, << "CARD", "PURCHASE" >>,
       << "POS", "PURCHASE" >>, << "ACH", "DEBIT" >>, << "ATM", "WITHDRAWAL" >>,
       << "ONLINE", "PAYMENT" >>, << "PAYMENT" >>, << "TRANSFER", "TO" >>,
       << "AUTOMATIC", "PAYMENT" >> >>

\* the keywords after kw.upper()
DEFAULT_INCOME_KEYS ==
    << << "ONLINE", "TRANSFER", "FROM" >>, << "TRANSFER", "FROM" >>, << "DEPOSIT" >>,
       << "PAYROLL" >>, << "CHECK", "DEPOSIT" >>, << "ATM", "CHECK", "DEPOSIT" >>,
       << "INTEREST", "PAYMENT" >>, << "DIRECT", "DEP" >>, << "REFUND" >>,
       << "REVERSAL" >>, << "ACH", "CREDIT" >>, << "RETURN" >>, << "PERSHING" >> >>

\* for kw in kws: if kw.upper() in u
AnyInText(kws, u) == \E n \in 1..Len(kws) : InText(kws[n], u)

\* re.search(r'\b(TRANSFER|XFER|TRF)\s+<dir>\b', u)
TransferDir(u, dir) ==
    \E v \in {"TRANSFER", "XFER", "TRF"} : ContainsPhrase(u, << v, dir >>)

\* decide_sign with the negative hints read before the positive ones
decide_sign_neg_first(description, amt) ==
    LET u == upper(description)
    IN  IF TransferDir(u, "FROM") \/ (InText(<< "FROM" >>, u) /\ InText(<< "PERSHING" >>, u))
        THEN Abs(amt)
        ELSE IF TransferDir(u, "TO") \/ (InText(<< "TO" >>, u) /\ InText(<< "PERSHING" >>, u))
        THEN -Abs(amt)
        ELSE IF AnyInText(NEG_SIGN_HINTS, u) THEN -Abs(amt)
        ELSE IF AnyInText(POS_SIGN_HINTS, u) THEN Abs(amt)
        ELSE IF AnyInText(DEFAULT_INCOME_KEYS, u) THEN Abs(amt)
        ELSE -Abs(amt)

\* decide_sign(description, amt): the signed amount it returns
decide_sign(description, amt) ==
    LET u == upper(description)
    IN  IF TransferDir(u, "FROM") \/ (InText(<< "FROM" >>, u) /\ InText(<< "PERSHING" >>, u))
        THEN Abs(amt)
        ELSE IF TransferDir(u, "TO") \/ (InText(<< "TO" >>, u) /\ InText(<< "PERSHING" >>, u))
        THEN -Abs(amt)
        ELSE IF AnyInText(POS_SIGN_HINTS, u) THEN Abs(amt)
        ELSE IF AnyInText(NEG_SIGN_HINTS, u) THEN -Abs(amt)
        ELSE IF AnyInText(DEFAULT_INCOME_KEYS, u) THEN Abs(amt)
        ELSE -Abs(amt)

\* ------------------------------------------------ calls of the pure functions

MaxDescLen == 3

\* the descriptions of at most n words of ws
Descs(ws, n) == UNION { [1..m -> { W(s) : s \in ws }] : m \in 0..n }

SignWords ==
    { "TRANSFER", "FROM", "TO", "PERSHING", "DEPOSIT", "PAYMENT", "INTEREST",
      "STORE", "DEBIT", "UTILITY" }

\* amounts in cents
SignAmounts == { -7500, 0, 50000 }

\* the call decide_sign(description, amt)
DecideSignCall ==
    /\ entry = "decide_sign" /\ pc = "call"
    /\ f_out' = decide_sign(f_in.desc, f_in.amt)
    /\ pc' = "done"
    /\ UNCHANGED << anchorVars, lines, streamVars, df, scanVars, yearVars, f_in, runVars >>

\* ----------------------------------------------------- categorize_deposit

\* DEPOSIT_SUBCATS: per subcategory, the patterns r"\b...\b" as the words they
\* name (separated by \s+), and the pattern without \b as a text
DEPOSIT_SUBCATS ==
    << [name |-> "Return",
        words |-> { << "REFUND" >>, << "RETURN" >>, << "REVERSAL" >>, << "ADJUSTMENT" >> },
        text |-> {}],
       [name |-> "Payroll",
        words |-> { << "PAYROLL" >>, << "DIRECT", "DEP" >>, << "INCOME", "PMT" >>, << "ADP" >>,
                    << "OASISBATCH" >>, << "NEW", "YORK", "LIFE", "PAYROLL" >> },
        text |-> {}],
       [name |-> "Transfer In",
        words |-> { << "ONLINE", "TRANSFER", "FROM" >>, << "TRANSFER", "FROM" >>,
                    << "FROM", "SAV" >>, << "PERSHING" >> },
        text |-> {}],
       [name |-> "Check Deposit",
        words |-> {},
        text |-> { << "CHECK", "DEPOSIT" >> }],      \* (?:ATM|MOBILE)?\s*CHECK\s+DEPOSIT
       [name |-> "Interest",
        words |-> { << "INTEREST", "PAYMENT" >> },
        text |-> {}] >>

\* any(re.search(pat, u) for pat in patterns)
SubcatMatches(sub, u) ==
    \/ \E ws \in sub.words : ContainsPhrase(u, ws)
    \/ \E kw \in sub.text : InText(kw, u)

\* categorize_deposit returning the last subcategory that matches
categorize_deposit_last(desc) ==
    LET u == upper(desc)
        hits == { n \in 1..Len(DEPOSIT_SUBCATS) : SubcatMatches(DEPOSIT_SUBCATS[n], u) }
    IN  IF hits = {} THEN "Deposit"
        ELSE DEPOSIT_SUBCATS[CHOOSE n \in hits : \A m \in hits : m <= n].name

\* categorize_deposit(desc)
categorize_deposit(desc) ==
    LET u == upper(desc)
        hits == { n \in 1..Len(DEPOSIT_SUBCATS) : SubcatMatches(DEPOSIT_SUBCATS[n], u) }
    IN  IF hits = {} THEN "Deposit"
        ELSE DEPOSIT_SUBCATS[CHOOSE n \in hits : \A m \in hits : n <= m].name

DepositWords ==
    { "REFUND", "RETURNS", "TRANSFER", "FROM", "PAYROLL", "CHECK", "CHECKS", "DEPOSIT",
      "INTEREST", "PAYMENT", "PERSHING", "MOBILE" }

\* the call categorize_deposit(desc)
CategorizeDepositCall ==
    /\ entry = "categorize_deposit" /\ pc = "call"
    /\ f_out' = categorize_deposit(f_in.desc)
    /\ pc' = "done"
    /\ UNCHANGED << anchorVars, lines, streamVars, df, scanVars, yearVars, f_in, runVars >>

\* ----------------------------------------- apply_rules, categorize_default

\* a str value, where None is possible too
Str(s) == [k |-> "str", v |-> s]

\* u.startswith("CHECK #")
StartsCheckNo(u) == Len(u) >= 2 /\ IsWord(u[1], "CHECK") /\ u[2].k = "hashnum"

\* the checks of categorize_default after the first, in their order; starts
\* tells u.startswith(x) from x in u
DEFAULT_CHECKS ==
    << [cat |-> "Groceries", starts |-> FALSE, kws |-> { << "WAL-MART" >>, << "WALMART" >> }],
       [cat |-> "Food & drink", starts |-> TRUE, kws |-> { << "TST*" >> }],
       [cat |-> "401K transfer", starts |-> FALSE, kws |-> { << "PERSHING" >> }],
       [cat |-> "Online payment", starts |-> FALSE, kws |-> { << "ONLINE", "PAYMENT" >> }],
       [cat |-> "Home Repair", starts |-> FALSE, kws |-> { << "HOME", "DEPOT" >>, << "LOWES" >> }],
       [cat |-> "Golf", starts |-> FALSE, kws |-> { << "GOLF" >> }],
       [cat |-> "Health & wellness", starts |-> FALSE,
        kws |-> { << "WELLCARE" >>, << "CHIROPRACT" >> }],
       [cat |-> "Donations", starts |-> FALSE, kws |-> { << "KERA" >> }],
       [cat |-> "Groceries", starts |-> FALSE,
        kws |-> { << "KROGER" >>, << "TRADER", "JOE" >>, << "TOM", "THUMB" >>,
                  << "CENTRAL", "MARKET" >>, << "MARKET", "STREET" >>, << "WHOLEFDS" >>,
                  << "GROC" >> }],
       [cat |-> "Gas", starts |-> FALSE,
        kws |-> { << "QUIKTRIP" >>, << "SHELL" >>, << "EXXON" >>, << "FUEL" >>, << "GAS" >> }],
       [cat |-> "Shopping", starts |-> FALSE,
        kws |-> { << "J.", "JILL" >>, << "DSW" >>, << "KOHL" >>, << "MARSHALLS" >>, << "REI" >>,
                  << "ANTHROPOLOGIE" >>, << "BEDBATH" >> }],
       [cat |-> "Food & drink", starts |-> FALSE,
        kws |-> { << "DELI" >>, << "PANERA" >>, << "FISH", "AND", "FIZZ" >>, << "CAFETERI" >>,
                  << "SCOTTY", "P" >>, << "BREAD", "ZEPPELIN" >>, << "MCAF" >>, << "JASON'S" >>,
                  << "CAFE" >> }],
       [cat |-> "Entertainment", starts |-> FALSE,
        kws |-> { << "NETFLIX" >>, << "MUSEUM" >>, << "ARBOR" >> }] >>

DefaultCheckHolds(c, u) ==
    \E kw \in c.kws : IF c.starts THEN StartsText(kw, u) ELSE InText(kw, u)

\* categorize_default leaving the category blank when no check holds
categorize_default_blank(description) ==
    LET u == upper(description)
        hits == { n \in 1..Len(DEFAULT_CHECKS) : DefaultCheckHolds(DEFAULT_CHECKS[n], u) }
    IN  IF StartsCheckNo(u) THEN "Checks"
        ELSE IF hits = {} THEN ""
        ELSE DEFAULT_CHECKS[CHOOSE n \in hits : \A m \in hits : n <= m].cat

\* categorize_default(description)
categorize_default(description) ==
    LET u == upper(description)
        hits == { n \in 1..Len(DEFAULT_CHECKS) : DefaultCheckHolds(DEFAULT_CHECKS[n], u) }
    IN  IF StartsCheckNo(u) THEN "Checks"
        ELSE IF hits = {} THEN "Other"
        ELSE DEFAULT_CHECKS[CHOOSE n \in hits : \A m \in hits : n <= m].cat

\* kw.upper()
upper_kw(kw) == [n \in 1..Len(kw) |-> upper_word(kw[n])]

\* the test of one rule in apply_rules; the keyword of a regex rule is a
\* literal text (it has no metacharacter)
RuleHolds(rule, description) ==
    LET text_cs == description
        text_uc == upper(text_cs)
        kw == rule.keyword
        hay == IF rule.case_sensitive THEN text_cs ELSE text_uc
        needle == IF rule.case_sensitive THEN kw ELSE upper_kw(kw)
        mt == rule.match_type
    IN  \/ mt = "contains" /\ InText(needle, hay)
        \/ mt = "startswith" /\ StartsText(needle, hay)
        \/ mt = "regex" /\ InText(kw, text_cs)

\* apply_rules(description, rules): Str(category) or None
apply_rules(description, rules_) ==
    LET hits == { n \in 1..Len(rules_) : RuleHolds(rules_[n], description) }
    IN  IF rules_ = << >> THEN Null
        ELSE IF hits = {} THEN Null
        ELSE Str(rules_[CHOOSE n \in hits : \A m \in hits : n <= m].category)

\* main: apply_rules(desc, rules) or categorize_default(desc)
RulesOrDefault(desc, rules_) ==
    LET r == apply_rules(desc, rules_)
    IN  IF r # Null /\ r.v # "" THEN r.v ELSE categorize_default(desc)

MaxRuleDescLen == 2
MaxRules == 2

RuleWords == { "NETFLIX", "netflix", "KROGER", "kroger", "VEGAS", "ONLINE", "PAYMENT", "UTILITY" }

\* rules as load_rules builds them: a non-empty keyword, a non-empty category
Rule(kw, cat, mt, cs) ==
    [keyword |-> kw, category |-> cat, match_type |-> mt, case_sensitive |-> cs]

RuleSet ==
    { Rule(<< "NETFLIX" >>, "Subscriptions", "contains", FALSE),
      Rule(<< "netflix" >>, "Streaming", "regex", FALSE),
      Rule(<< "kroger" >>, "Food", "startswith", TRUE),
      Rule(<< "kroger" >>, "Market", "startswith", FALSE),
      Rule(<< "ONLINE", "PAYMENT" >>, "Bills", "contains", TRUE),
      Rule(<< "GAS" >>, "Fuel", "regex", TRUE) }

RuleLists == UNION { [1..m -> RuleSet] : m \in 0..MaxRules }

\* the descriptions of the non-deposit records: words, or CHECK #<number>
RuleDescs == Descs(RuleWords, MaxRuleDescLen) \cup { << W("CHECK"), HashNum(Num(1023, 4)) >> }

\* main, CATEGORIZE, for one non-deposit record
CategorizeCall ==
    /\ entry = "categorize" /\ pc = "call"
    /\ f_out' = RulesOrDefault(f_in.desc, f_in.rules)
    /\ pc' = "done"
    /\ UNCHANGED << anchorVars, lines, streamVars, df, scanVars, yearVars, f_in, runVars >>

\* ----------------------------------- parse_begin_end_balances, statement totals

\* a float value, where None is possible too
Some(x) == [k |-> "some", v |-> x]

\* \$?[\d,]+\.\d{2} at the start of token t, whitespace or \b after it
BareAmt(t, spaced) == IsAmt(t) /\ ~t.lead /\ ~t.paren /\ (spaced => ~t.trail)

\* \s+(?P<acct>\d{6,})\s+\$?(?P<begin>...)\s+\$?(?P<end>...) from token j
AcctTail(line, j) ==
    /\ j + 2 <= Len(line)
    /\ line[j].k = "num" /\ line[j].d >= 6
    /\ BareAmt(line[j + 1], TRUE)
    /\ BareAmt(line[j + 2], FALSE)

\* the matches of CHECKING_SPECIFIC_RE, of CHECKING_GENERIC_RE: the token of "Checking"
SpecificAt(line) ==
    { j \in 4..Len(line) :
        /\ HasEnd(line[j - 3], "CHASE") /\ IsWord(line[j - 2], "BETTER")
        /\ IsWord(line[j - 1], "BANKING") /\ IsWord(line[j], "CHECKING")
        /\ AcctTail(line, j + 1) }
GenericAt(line) ==
    { j \in 1..Len(line) : IsWord(line[j], "CHECKING") /\ AcctTail(line, j + 1) }

Least(S) == CHOOSE n \in S : \A m \in S : n <= m
Greatest(S) == CHOOSE n \in S : \A m \in S : m <= n

\* (begin, end) of the first line with a match, the leftmost match of the line
HeaderBalances(lines_, specific) ==
    LET At(l) == IF specific THEN SpecificAt(l) ELSE GenericAt(l)
        hit == { n \in 1..Len(lines_) : At(lines_[n]) # {} }
        line == lines_[Least(hit)]
        j == Least(At(line))
    IN  << Some(line[j + 2].cents), Some(line[j + 3].cents) >>

\* BAL_AMT at the start of token t
LabelAmt(t) == IsAmt(t) /\ ~t.lead
\* _to_float_amt of the text BAL_AMT takes from t: '(' ... ')' kept, a trailing '-' left out
to_float_amt(t) == IF t.paren THEN -t.cents ELSE t.cents

\* the matches of <label> Balance <amount>: the token of the label
LabelAt(line, labels) ==
    { j \in 1..(Len(line) - 2) :
        /\ \E w \in labels : HasEnd(line[j], w)
        /\ IsWord(line[j + 1], "BALANCE")
        /\ LabelAmt(line[j + 2]) }

\* the value of the last line with a match, None without one
LabelBalance(lines_, labels) ==
    LET hit == { n \in 1..Len(lines_) : LabelAt(lines_[n], labels) # {} }
        line == lines_[Greatest(hit)]
    IN  IF hit = {} THEN Null ELSE Some(to_float_amt(line[Least(LabelAt(line, labels)) + 2]))

\* the balances of the first line that has a checking header of either kind
parse_begin_end_balances_first_header(lines_) ==
    LET begin_lbl == LabelBalance(lines_, {"BEGINNING"})
        end_lbl == LabelBalance(lines_, {"ENDING", "CLOSING"})
    IN  IF \E n \in 1..Len(lines_) : GenericAt(lines_[n]) # {}
        THEN HeaderBalances(lines_, FALSE)
        ELSE IF begin_lbl # Null /\ end_lbl # Null THEN << begin_lbl, end_lbl >>
        ELSE << Null, Null >>

\* parse_begin_end_balances(lines)
parse_begin_end_balances(lines_) ==
    LET begin_lbl == LabelBalance(lines_, {"BEGINNING"})
        end_lbl == LabelBalance(lines_, {"ENDING", "CLOSING"})
    IN  IF \E n \in 1..Len(lines_) : SpecificAt(lines_[n]) # {}
        THEN HeaderBalances(lines_, TRUE)
        ELSE IF \E n \in 1..Len(lines_) : GenericAt(lines_[n]) # {}
        THEN HeaderBalances(lines_, FALSE)
        ELSE IF begin_lbl # Null /\ end_lbl # Null THEN << begin_lbl, end_lbl >>
        ELSE << Null, Null >>

\* the line is  [Total] <w of first> [and] [Other] <w of second> <amount>  (second
\* empty: no second word), read from its first token; the result is the
\* position of the amount, 0 without a match
TotalLine(line, first, opt, second) ==
    LET Skip(j, ws) == IF j <= Len(line) /\ (\E w \in ws : IsWord(line[j], w)) THEN j + 1 ELSE j
        j1 == Skip(1, {"TOTAL"})
        j2 == Skip(j1, first)
        j3 == IF opt THEN Skip(Skip(j2, {"AND"}), {"OTHER"}) ELSE j2
        j4 == IF second = {} THEN j3 ELSE Skip(j3, second)
    IN  IF /\ j2 = j1 + 1
           /\ (second # {} => j4 = j3 + 1)
           /\ j4 <= Len(line) /\ BareAmt(line[j4], FALSE)
        THEN j4 ELSE 0

TOTAL_DEPOSITS_RE(line) ==
    TotalLine(line, {"DEPOSIT", "DEPOSITS"}, TRUE, {"ADDITION", "ADDITIONS", "CREDIT", "CREDITS"})
TOTAL_WITHDRAWALS_RE(line) ==
    TotalLine(line, {"WITHDRAWAL", "WITHDRAWALS", "SUBTRACTION", "SUBTRACTIONS"}, FALSE, {})

\* the amount of the last line that the pattern of the deposits total (of the
\* withdrawals total) matches, None without one
LastTotal(lines_, deposits) ==
    LET RE(l) == IF deposits THEN TOTAL_DEPOSITS_RE(l) ELSE TOTAL_WITHDRAWALS_RE(l)
        hit == { n \in 1..Len(lines_) : RE(lines_[n]) # 0 }
        line == lines_[Greatest(hit)]
    IN  IF hit = {} THEN Null ELSE Some(Abs(line[RE(line)].cents))

\* parse_statement_totals(lines)
parse_statement_totals(lines_) ==
    << LastTotal(lines_, TRUE), LastTotal(lines_, FALSE) >>

\* ------------------------------------------------------------ parse_dep_add

\* DEP_ADD_HDR.search(line): Deposit[s] [and] [Other] Addition.. | Credit..
DEP_ADD_HDR(line) ==
    \E j \in 1..Len(line) :
       /\ HasEnd(line[j], "DEPOSIT") \/ HasEnd(line[j], "DEPOSITS")
       /\ LET Skip(k, w) == IF k <= Len(line) /\ IsWord(line[k], w) THEN k + 1 ELSE k
              k == Skip(Skip(j + 1, "AND"), "OTHER")
          IN  /\ k <= Len(line)
              /\ HasStart(line[k], "ADDITION") \/ HasStart(line[k], "CREDIT")

\* HEADER_ROW.match(line): ^\s*DATE\s+DESCRIPTION\s+AMOUNT\b
HEADER_ROW(line) ==
    /\ Len(line) >= 3
    /\ IsWord(line[1], "DATE") /\ IsWord(line[2], "DESCRIPTION") /\ IsWord(line[3], "AMOUNT")

\* MAJOR_STOP.match(line): a section title at the start of the line and no
\* money text after it ("CHECK NO. DESCRIPTION" is not a line of words)
MAJOR_STOP(line) ==
    LET Is(k, ws) == k <= Len(line) /\ \E w \in ws : IsWord(line[k], w)
    IN  /\ \/ Is(1, {"CHECKING"}) /\ Is(2, {"SUMMARY"})
           \/ Is(1, {"CHECK", "CHECKS"}) /\ Is(2, {"PAID"})
           \/ /\ Is(1, {"ATM"}) /\ Is(2, {"DEBIT"}) /\ Is(3, {"CARD"})
              /\ Is(4, {"WITHDRAWAL", "WITHDRAWALS"})
           \/ Is(1, {"ELECTRONIC"}) /\ Is(2, {"WITHDRAWAL", "WITHDRAWALS"})
        /\ \A j \in 1..Len(line) : ~IsAmt(line[j])

\* grab_date_run(lines, start_idx): the while loop from line start_idx + 1
\* (lines[j] of the source is lines_[j + 1]). Before the run has started the
\* loop steps over every line but a major header, which ends it, and a date
\* line, which starts the run; after that it steps over table headers, adds
\* date lines and ends at any other line. A check line (is_check_txn) is
\* treated as any other line that is not a date line.
grab_date_run(lines_, start_idx) ==
    LET N == Len(lines_)
        first == { j \in (start_idx + 1)..(N - 1) :
                     MAJOR_STOP(lines_[j + 1]) \/ DATE_LINE(lines_[j + 1]).ok }
        s == Least(first)
        after == { j \in (s + 1)..(N - 1) :
                     ~HEADER_ROW(lines_[j + 1]) /\ ~DATE_LINE(lines_[j + 1]).ok }
        e == IF after = {} THEN N ELSE Least(after)
    IN  IF first = {} \/ MAJOR_STOP(lines_[s + 1]) THEN << >>
        ELSE SelectSeq(SubSeq(lines_, s + 1, e), LAMBDA l : DATE_LINE(l).ok)

\* the keywords of _score_depositish
SCORE_DEP_KW ==
    << << "DEPOSIT" >>, << "CHECK", "DEPOSIT" >>, << "ATM", "CHECK", "DEPOSIT" >>,
       << "PAYROLL" >>, << "DIRECT", "DEP" >>, << "ACH", "CREDIT" >>, << "CREDIT" >>,
       << "ONLINE", "TRANSFER", "FROM" >>, << "TRANSFER", "FROM" >>,
       << "INTEREST", "PAYMENT" >> >>
SCORE_NEG_KW ==
    << << "CARD", "PURCHASE" >>, << "ATM", "WITHDRAWAL" >>, << "WITHDRAWAL" >>,
       << "ONLINE", "PAYMENT" >>, << "PAYMENT" >>, << "TRANSFER", "TO" >>, << "DEBIT" >> >>

\* _score_depositish(run_lines)
RECURSIVE score_depositish(_)
score_depositish(run_lines) ==
    IF run_lines = << >> THEN 0
    ELSE LET u == upper(Head(run_lines))
         IN  (IF AnyInText(SCORE_DEP_KW, u) THEN 2 ELSE 0)
             - (IF AnyInText(SCORE_NEG_KW, u) THEN 2 ELSE 0)
             + score_depositish(Tail(run_lines))

\* the offset of a run whose first line is not found again
NoOffset == 1000000000
\* the lines after the header the first date line is looked for in
ScanAhead == 60
\* the largest offset of a run that is preferred
NearOffset == 20

\* _first_date_offset(_lines, start_idx, r)
first_date_offset(lines_, start_idx, r) ==
    LET last == (IF start_idx + ScanAhead < Len(lines_)
                 THEN start_idx + ScanAhead ELSE Len(lines_)) - 1
        ks == { k \in (start_idx + 1)..last : lines_[k + 1] = r[1] }
    IN  IF r = << >> \/ ks = {} THEN NoOffset ELSE Least(ks) - start_idx

\* the numbers of S in increasing order
Ascending(S) ==
    [n \in 1..Cardinality(S) |-> CHOOSE c \in S : Cardinality({ x \in S : x < c }) = n - 1]

\* 1) header-anchored candidates: (i, r) for every line i that holds the
\* deposits header and has a run after it, in the order of the lines
HeaderRuns(lines_) ==
    LET hs == { i_ \in 0..(Len(lines_) - 1) :
                  DEP_ADD_HDR(lines_[i_ + 1]) /\ grab_date_run(lines_, i_) # << >> }
        at == Ascending(hs)
    IN  [n \in 1..Len(at) |-> [i |-> at[n], r |-> grab_date_run(lines_, at[n])]]

\* no scan for date-run blocks
FallbackRunsNone(lines_) == << >>

\* 2) fallback: (j - 1, r) for every line j that starts a block of date-led
\* lines (the inner while steps over the rest of the block)
FallbackRuns(lines_) ==
    LET js == { j \in 0..(Len(lines_) - 1) :
                  /\ DATE_LINE(lines_[j + 1]).ok
                  /\ j = 0 \/ ~DATE_LINE(lines_[j]).ok
                  /\ grab_date_run(lines_, j - 1) # << >> }
        at == Ascending(js)
    IN  [n \in 1..Len(at) |-> [i |-> at[n] - 1, r |-> grab_date_run(lines_, at[n] - 1)]]

\* de-dup by (header index, first-date offset, length): the first of a key stays
RECURSIVE Uniq(_, _, _)
Uniq(lines_, runs_, seen_) ==
    IF runs_ = << >> THEN << >>
    ELSE LET c == Head(runs_)
             pos == first_date_offset(lines_, c.i, c.r)
             key == << c.i, pos, Len(c.r) >>
         IN  IF key \in seen_ THEN Uniq(lines_, Tail(runs_), seen_)
             ELSE << [i |-> c.i, r |-> c.r, pos |-> pos] >>
                  \o Uniq(lines_, Tail(runs_), seen_ \cup {key})

\* every run kept, near or far
FilteredAll(uniq) == uniq

\* the runs with pos <= 20, all of them when there is none
Filtered(uniq) ==
    LET near == SelectSeq(uniq, LAMBDA c : c.pos <= NearOffset)
    IN  IF near = << >> THEN uniq ELSE near

\* the key of max: (score, length, -pos)
KeyLess(a, b) ==
    LET sa == score_depositish(a.r)
        sb == score_depositish(b.r)
    IN  \/ sa < sb
        \/ sa = sb /\ Len(a.r) < Len(b.r)
        \/ sa = sb /\ Len(a.r) = Len(b.r) /\ -a.pos < -b.pos

\* the last of the runs with the largest key
BestLast(filtered) ==
    filtered[Greatest({ n \in 1..Len(filtered) :
                          \A m \in 1..Len(filtered) : ~KeyLess(filtered[n], filtered[m]) })]

\* max(filtered, key=...): the first of the runs with the largest key
Best(filtered) ==
    filtered[Least({ n \in 1..Len(filtered) :
                       \A m \in 1..Len(filtered) : ~KeyLess(filtered[n], filtered[m]) })]

\* 1000^k for a number of k + 1 groups of thousands
RECURSIVE Scale(_)
Scale(n) == IF n < 1000 THEN 1 ELSE 1000 * Scale(n \div 1000)

\* the line as AMT_RE finds it after m.end(): the third part of DATE_LINE,
\* \s*[/-]\s*(\d{2,4}), takes the '-' and the first two or three digits of a
\* money text -dd.. right after the date (amounts are written with thousands
\* separators), and what is left of it is .cc or ,ddd.cc
AfterDate(line) ==
    LET t == line[2]
        whole == t.cents \div 100
        left == (whole % Scale(whole)) * 100 + (t.cents % 100)
    IN  IF /\ Len(line) >= 2 /\ IsAmt(t) /\ t.lead /\ ~t.dollar /\ ~t.paren
           /\ whole \div Scale(whole) >= 10
        THEN [line EXCEPT ![2] = IF whole < 1000 THEN Mark
                                 ELSE Money(left, FALSE, FALSE, t.trail, FALSE)]
        ELSE line

\* parse the chosen run into rows; desc is the tokens between the date and the
\* last amount
RECURSIVE DepRows(_, _, _)
DepRows(run_lines, ey, em) ==
    IF run_lines = << >> THEN << >>
    ELSE LET line == Head(run_lines)
             m == DATE_LINE(line)
             amts == AMT_RE(AfterDate(line))
             a == amts[Len(amts)]
         IN  (IF ~m.ok \/ amts = << >> THEN << >>
              ELSE << [date |-> << assign_year(ey, em, m.mm), m.mm, m.dd >>,
                       desc |-> SubSeq(line, m.end + 1, a.at - 1),
                       amount |-> Abs(clean_amount(a.txt)), src |-> "DEP_ADD"] >>)
             \o DepRows(Tail(run_lines), ey, em)

\* parse_dep_add(lines, end_year, end_month): its locals at the return; the
\* results of parse_checks_anywhere and parse_negative_section are not used
parse_dep_add(lines_, ey, em) ==
    LET hdr == HeaderRuns(lines_)
        runs_ == IF hdr # << >> THEN hdr ELSE FallbackRuns(lines_)
        uniq == Uniq(lines_, runs_, {})
        filtered == Filtered(uniq)
    IN  IF runs_ = << >>
        THEN [anchored |-> FALSE, uniq |-> << >>, filtered |-> << >>, best |-> Null,
              rows |-> << >>]
        ELSE [anchored |-> hdr # << >>, uniq |-> uniq, filtered |-> filtered,
              best |-> Best(filtered),
              rows |-> DepRows(Best(filtered).r, ey, em)]

\* Deposits and Additions
DepHdr == << W("DEPOSITS"), W("AND"), W("ADDITIONS") >>
\* the same header on two lines: Deposits and / Additions
DepHdrTop == << W("DEPOSITS"), W("AND") >>
DepHdrBottom == << W("ADDITIONS") >>

\* a statement is up to MaxSegs segments, each a header (on one line, on two
\* lines, or none) alone or with blank lines and a block of date-led lines
\* after it
MaxSegs == 2
Headers == { << DepHdr >>, << DepHdrTop, DepHdrBottom >>, << >> }
Gaps == { 0, NearOffset - 1, NearOffset }
Blocks == { << DepRow >>, << DepRow, OnlinePay >>, << TwoAmts, NoAmt >> }
Segments ==
    Headers \cup { h \o [k \in 1..g |-> Blank] \o b : h \in Headers, g \in Gaps, b \in Blocks }
RECURSIVE SegDocs(_)
SegDocs(n) ==
    IF n = 0 THEN { << >> }
    ELSE { d \o s : d \in SegDocs(n - 1), s \in Segments } \cup SegDocs(n - 1)
DepDocs == SegDocs(MaxSegs)

\* a call parse_dep_add(lines, end_year, end_month)
DepAddCall ==
    /\ entry = "parse_dep_add" /\ pc = "call"
    /\ f_out' = parse_dep_add(lines, end_year, end_month)
    /\ pc' = "done"
    /\ UNCHANGED << anchorVars, lines, streamVars, df, scanVars, yearVars, f_in, runVars >>

\* statement lines with balances
\* Chase Better Banking Checking 714245 $2,000.00 $2,300.00
HdrExact == << W("CHASE"), W("BETTER"), W("BANKING"), W("CHECKING"), Num(714245, 6),
               Money(200000, FALSE, TRUE, FALSE, FALSE), Money(230000, FALSE, TRUE, FALSE, FALSE) >>
\* Checking 714245 $1,000.00 $1,325.00
HdrBal == << W("CHECKING"), Num(714245, 6), Money(100000, FALSE, TRUE, FALSE, FALSE),
             Money(132500, FALSE, TRUE, FALSE, FALSE) >>
\* Beginning Balance $1,000.00
BegLbl == << W("BEGINNING"), W("BALANCE"), Money(100000, FALSE, TRUE, FALSE, FALSE) >>
\* Ending Balance $1,400.00
EndLbl == << W("ENDING"), W("BALANCE"), Money(140000, FALSE, TRUE, FALSE, FALSE) >>

\* the documents parse_begin_end_balances is called on
MaxBalLines == 3
BalLines == { HdrExact, HdrBal, BegLbl, EndLbl, DepRow }
BalDocs == UNION { [1..n -> BalLines] : n \in 0..MaxBalLines }

\* the call parse_begin_end_balances(lines)
BalancesCall ==
    /\ entry = "parse_begin_end_balances" /\ pc = "call"
    /\ f_out' = parse_begin_end_balances(f_in.lines)
    /\ pc' = "done"
    /\ UNCHANGED << anchorVars, lines, streamVars, df, scanVars, yearVars, f_in, runVars >>

\* ------------------------------------------------------ main, run after run

\* parse_stream_simple(lines, end_year, end_month): the locals when the loop ends
RECURSIVE StreamLoop(_, _, _, _)
StreamLoop(st, ls, ey, em) ==
    IF ls = << >> \/ st.brk THEN st
    ELSE StreamLoop(StreamBody(st, Head(ls), ey, em), Tail(ls), ey, em)

\* the loop started from the section and flag the call before left behind
parse_stream_simple_carrying(lines_, ey, em) ==
    StreamLoop([i |-> 0, sec_idx |-> sec_idx, gap_after_atm |-> gap_after_atm,
                out |-> << >>, brk |-> FALSE],
               lines_, ey, em)

parse_stream_simple(lines_, ey, em) ==
    StreamLoop([i |-> 0, sec_idx |-> -1, gap_after_atm |-> FALSE, out |-> << >>, brk |-> FALSE],
               lines_, ey, em)

\* the statements one process parses, one call after the other
MaxCalls == 3
MaxCallLines == 2
CallDocs == UNION { [1..n -> { ChkRow, DepRow }] : n \in 0..MaxCallLines }

\* a call parse_stream_simple(lines, end_year, end_month) in a process that has
\* made the calls of f_out before it
StreamCall ==
    /\ entry = "parse_stream_simple" /\ pc \in {"call", "done"}
    /\ Len(f_out) < MaxCalls
    /\ \E doc \in CallDocs :
         LET st == parse_stream_simple(doc, end_year, end_month)
         IN  /\ lines' = doc
             /\ i' = st.i /\ sec_idx' = st.sec_idx /\ gap_after_atm' = st.gap_after_atm
             /\ out' = st.out
             /\ f_out' = Append(f_out, [lines |-> doc, out |-> st.out])
    /\ pc' = "done"
    /\ UNCHANGED << anchorVars, df, scanVars, yearVars, f_in, runVars >>

\* statement lines
\* Total Deposits and Additions $500.00
TotDep == << W("TOTAL"), W("DEPOSITS"), W("AND"), W("ADDITIONS"),
             Money(50000, FALSE, TRUE, FALSE, FALSE) >>
\* Total Withdrawals $175.00
TotWd == << W("TOTAL"), W("WITHDRAWALS"), Money(17500, FALSE, TRUE, FALSE, FALSE) >>
\* 01/05 DEPOSIT MOBILE CHECK DEPOSIT 500.00
DepMobile == << Dt(1, 5), W("DEPOSIT"), W("MOBILE"), W("CHECK"), W("DEPOSIT"), Plain(50000) >>
\* 01/07 ACH DEBIT UTILITY CO 75.00
AchDebit == << Dt(1, 7), W("ACH"), W("DEBIT"), W("UTILITY"), W("CO"), Plain(7500) >>
\* 01/09 NETFLIX 15.00
Netflix == << Dt(1, 9), W("NETFLIX"), Plain(1500) >>

\* a statement file <tag>_<yyyy><mm><dd>.txt and its lines; the amounts of its
\* transactions are not zero
File(tag, y, m, d, text) == [name |-> << tag, y, m, d >>, exists |-> TRUE, text |-> text]

Scenario == File("a", 2019, 1, 31, << HdrBal, DepMobile, ChkRow, AchDebit >>)

Files ==
    { Scenario,
      File("b", 2019, 1, 31, << DepMobile, ChkRow, AchDebit, TotWd >>),
      File("c", 2019, 2, 28, << BegLbl, TotDep, DepMobile, Netflix, EndLbl >>),
      File("d", 2019, 2, 30, << HdrBal, DepMobile, ChkRow >>),
      File("e", 2019, 3, 31, << HdrBal, NoAmt >>),
      File("f", 2019, 3, 31, << BegLbl, ChkRow, Netflix, TotDep, TotWd >>) }

\* --input names a file that does not exist
Missing == [name |-> << "m", 2019, 1, 31 >>, exists |-> FALSE, text |-> << >>]

\* --rules: no rules file, a rules file, a file pd.read_csv cannot read
RulesFile(readable, rows) == [readable |-> readable, rows |-> rows]
RuleFiles ==
    { RulesFile(TRUE, << >>),
      RulesFile(TRUE, << Rule(<< "NETFLIX" >>, "Subscriptions", "contains", FALSE) >>),
      RulesFile(FALSE, << >>) }

MaxRuns == 2

\* Workbook(), after read_ingest_log has created the Ingest Log sheet: the
\* All Transactions sheet, the sheets per year, Recon Detail (last run),
\* Balance Reconciliation and the Ingest Log.  The summary sheets are rebuilt
\* from All Transactions on every run and are left out.
NewWorkbook ==
    [all |-> << >>, year |-> << >>, detail |-> << >>, ledger |-> << >>, log |-> << >>]

\* file_signature(input_path)
file_signature(f) == << f.name, f.text >>

\* parse_end_date_from_filename(input_path)
parse_end_date_from_filename(f) == << f.name[2], f.name[3] >>

\* the start of main: workbook, ingest log, duplicate guard, text, balances, anchor
Start ==
    /\ entry = "main" /\ pc \in {"args", "done", "failed"}
    /\ runs < MaxRuns
    /\ runs' = runs + 1
    /\ \E f \in Files \cup {Missing}, fc \in BOOLEAN, rl \in RuleFiles :
         LET w == IF disk = Null THEN NewWorkbook ELSE disk
             seen_ == { w.log[n] : n \in 1..Len(w.log) }
             bal == parse_begin_end_balances(f.text)
             anchor == parse_end_date_from_filename(f)
         IN  /\ file' = f /\ force' = fc /\ rules' = rl
             /\ wb' = w
             /\ out' = << >> /\ df' = << >> /\ i' = 0 /\ sec_idx' = -1 /\ gap_after_atm' = FALSE
             /\ IF ~f.exists
                THEN /\ pc' = "failed"
                     /\ UNCHANGED << lines, begin_bal, end_bal, end_year, end_month >>
                ELSE IF ~fc /\ file_signature(f) \in seen_
                THEN /\ pc' = "done"
                     /\ UNCHANGED << lines, begin_bal, end_bal, end_year, end_month >>
                ELSE /\ pc' = "parse"
                     /\ lines' = f.text
                     /\ begin_bal' = bal[1] /\ end_bal' = bal[2]
                     /\ end_year' = anchor[1] /\ end_month' = anchor[2]
    /\ UNCHANGED << entry, disk, scanVars, yearVars, callVars >>

\* append_ingest_log(log_ws, dashboard_path, sig, parsed, added)
append_ingest_log(w, sig) == [w EXCEPT !.log = Append(@, sig)]

\* PARSE; with no row left the workbook is saved and the run ends
Parse ==
    /\ entry = "main" /\ pc = "parse"
    /\ LET st == parse_stream_simple(lines, end_year, end_month)
           frame == SortByDate(DropNa(st.out))
       IN  /\ i' = st.i /\ sec_idx' = st.sec_idx /\ gap_after_atm' = st.gap_after_atm
           /\ out' = st.out
           /\ df' = frame
           /\ IF frame = << >>
              THEN /\ disk' = wb
                   /\ wb' = append_ingest_log(wb, file_signature(file))
                   /\ pc' = "done"
              ELSE /\ pc' = "categorize"
                   /\ UNCHANGED << wb, disk >>
    /\ UNCHANGED << anchorVars, lines, scanVars, yearVars, callVars,
                    file, force, rules, begin_bal, end_bal, runs >>

\* section defaults if still blank
SectionDefault(src, cat) ==
    IF cat # "" THEN cat
    ELSE IF src = "ATM" THEN "Card/ATM"
    ELSE IF src = "ELEC" THEN "Electronic"
    ELSE IF src = "CHECKS" THEN "Checks"
    ELSE cat

\* the Category of record r
Categorized(r, rules_) ==
    LET c == IF r.src = "DEP_ADD" THEN categorize_deposit(r.desc)
             ELSE RulesOrDefault(r.desc, rules_)
    IN  [date |-> r.date, desc |-> r.desc, amount |-> r.amount, src |-> r.src,
         cat |-> SectionDefault(r.src, c)]

\* CATEGORIZE; load_rules raises on a file it cannot read
Categorize ==
    /\ entry = "main" /\ pc = "categorize"
    /\ IF ~rules.readable
       THEN pc' = "failed" /\ UNCHANGED df
       ELSE /\ df' = [n \in 1..Len(df) |-> Categorized(df[n], rules.rows)]
            /\ pc' = "signing"
    /\ UNCHANGED << anchorVars, lines, streamVars, scanVars, yearVars, callVars, runVars >>

\* SIGNING (section-first)
Signing ==
    /\ entry = "main" /\ pc = "signing"
    /\ df' = [n \in 1..Len(df) |-> SignRecord(df[n])]
    /\ pc' = "detail"
    /\ UNCHANGED << anchorVars, lines, streamVars, scanVars, yearVars, callVars, runVars >>

\* RECON DETAIL (last run)
Detail ==
    /\ entry = "main" /\ pc = "detail"
    /\ wb' = [wb EXCEPT !.detail = df]
    /\ pc' = "merge"
    /\ UNCHANGED << anchorVars, lines, streamVars, df, scanVars, yearVars, callVars,
                    file, force, rules, disk, begin_bal, end_bal, runs >>

\* df[tx_cols]
TxRow(r) == [date |-> r.date, desc |-> r.desc, cat |-> r.cat, amount |-> r.amount]

\* drop_duplicates on date || description || amount: the first row of a key stays
RECURSIVE DropDuplicates(_, _)
DropDuplicates(rows, keys) ==
    IF rows = << >> THEN << >>
    ELSE LET r == Head(rows)
             key == << r.date, r.desc, r.amount >>
         IN  IF key \in keys THEN DropDuplicates(Tail(rows), keys)
             ELSE << r >> \o DropDuplicates(Tail(rows), keys \cup {key})

\* the new rows put before the rows of the sheet
merge_dedup_new_first(old, new) == SortByDate(DropNa(DropDuplicates(new \o old, {})))

\* merge_dedup(old, new)
merge_dedup(old, new) == SortByDate(DropNa(DropDuplicates(old \o new, {})))

\* the rows of year y
OfYear(rows, y) == SelectSeq(rows, LAMBDA r : r.date[1] = y)

\* read_sheet_df(wb, str(y))
YearSheet(w, y) == IF y \in DOMAIN w.year THEN w.year[y] ELSE << >>

\* the merge writing the dashboard file as soon as the sheets are merged
MergeSaving ==
    /\ entry = "main" /\ pc = "merge"
    /\ LET df_tx == [n \in 1..Len(df) |-> TxRow(df[n])]
       IN  wb' = [wb EXCEPT !.all = merge_dedup(wb.all, df_tx)]
    /\ disk' = wb'
    /\ pc' = "recon"
    /\ UNCHANGED << anchorVars, lines, streamVars, df, scanVars, yearVars, callVars,
                    file, force, rules, begin_bal, end_bal, runs >>

\* MERGE: per-year + All Transactions
Merge ==
    /\ entry = "main" /\ pc = "merge"
    /\ LET df_tx == [n \in 1..Len(df) |-> TxRow(df[n])]
           years_present == { df_tx[n].date[1] : n \in 1..Len(df_tx) }
       IN  wb' = [wb EXCEPT
                    !.year = [y \in DOMAIN wb.year \cup years_present |->
                                 IF y \in years_present
                                 THEN merge_dedup(YearSheet(wb, y), OfYear(df_tx, y))
                                 ELSE wb.year[y]],
                    !.all = merge_dedup(wb.all, df_tx)]
    /\ pc' = "recon"
    /\ UNCHANGED << anchorVars, lines, streamVars, df, scanVars, yearVars, callVars,
                    file, force, rules, disk, begin_bal, end_bal, runs >>

RECURSIVE SumAmounts(_)
SumAmounts(rows) == IF rows = << >> THEN 0 ELSE Head(rows).amount + SumAmounts(Tail(rows))

\* dep_total_calc = float(df.loc[df["Amount"] > 0, "Amount"].sum())
dep_total_calc(rows) == SumAmounts(SelectSeq(rows, LAMBDA r : r.amount > 0))

\* the withdrawals summed without the negation
wd_total_signed(rows) == SumAmounts(SelectSeq(rows, LAMBDA r : r.amount < 0))

\* wd_total_calc = float((-df.loc[df["Amount"] < 0, "Amount"]).sum())
wd_total_calc(rows) == -SumAmounts(SelectSeq(rows, LAMBDA r : r.amount < 0))

\* a None operand read as zero
DeltaNoneAsZero(a, b) ==
    Some((IF a = Null THEN 0 ELSE a.v) - (IF b = Null THEN 0 ELSE b.v))

\* None if either operand is None, else round(a - b, 2)
Delta(a, b) == IF a = Null \/ b = Null THEN Null ELSE Some(a.v - b.v)

\* new_row
NewRow(end, begin, endb, rows, lines_) ==
    LET dep == dep_total_calc(rows)
        wd == wd_total_calc(rows)
        stmt == parse_statement_totals(lines_)
        computed_end == IF begin = Null THEN Null ELSE Some(begin.v + dep - wd)
    IN  [date |-> end, begin |-> begin, dep |-> dep, wd |-> wd,
         computed_end |-> computed_end, end_reported |-> endb,
         stmt_dep |-> stmt[1], stmt_wd |-> stmt[2],
         d_dep |-> Delta(Some(dep), stmt[1]),
         d_wd |-> Delta(Some(wd), stmt[2]),
         diff |-> Delta(computed_end, endb)]

\* the new row added without the row of its end date being dropped
AppendRow(ledger, row) == SortByDate(Append(ledger, row))

\* Upsert on Statement End, then sort by date
Upsert(ledger, row) ==
    SortByDate(Append(SelectSeq(ledger, LAMBDA r : r.date # row.date), row))

\* the statement end date of the file name; pd.Timestamp raises on a date
\* the calendar does not have
stmt_end(f) == << f.name[2], f.name[3], f.name[4] >>

\* the error of the reconciliation step escaping the try
ReconcileUncaught ==
    /\ entry = "main" /\ pc = "recon"
    /\ IF ValidDate(stmt_end(file))
       THEN /\ wb' = [wb EXCEPT !.ledger =
                        Upsert(@, NewRow(stmt_end(file), begin_bal, end_bal, df, lines))]
            /\ pc' = "save"
       ELSE /\ pc' = "failed"
            /\ UNCHANGED wb
    /\ UNCHANGED << anchorVars, lines, streamVars, df, scanVars, yearVars, callVars,
                    file, force, rules, disk, begin_bal, end_bal, runs >>

\* BALANCE RECONCILIATION: try ... except Exception
Reconcile ==
    /\ entry = "main" /\ pc = "recon"
    /\ IF ValidDate(stmt_end(file))
       THEN wb' = [wb EXCEPT !.ledger =
                      Upsert(@, NewRow(stmt_end(file), begin_bal, end_bal, df, lines))]
       ELSE UNCHANGED wb
    /\ pc' = "save"
    /\ UNCHANGED << anchorVars, lines, streamVars, df, scanVars, yearVars, callVars,
                    file, force, rules, disk, begin_bal, end_bal, runs >>

\* SAVE & LOG: the log row is appended after the workbook is written
Save ==
    /\ entry = "main" /\ pc = "save"
    /\ disk' = wb
    /\ wb' = append_ingest_log(wb, file_signature(file))
    /\ pc' = "done"
    /\ UNCHANGED << anchorVars, lines, streamVars, df, scanVars, yearVars, callVars,
                    file, force, rules, begin_bal, end_bal, runs >>

\* ------------------------------------------------------------ specification

Init ==
    /\ entry \in {"main", "parse_checks_anywhere"}
    /\ pc = IF entry = "main" THEN "stream" ELSE "scan"
    /\ \E a \in Anchors : end_year = a[1] /\ end_month = a[2]
    /\ lines = << >>
    /\ i = 0 /\ sec_idx = -1 /\ gap_after_atm = FALSE /\ out = << >>
    /\ df = << >>
    /\ seen = {} /\ chk_out = << >>
    /\ y_in = << 0, 0, 0 >> /\ y_out = 0
    /\ f_in = << >> /\ f_out = Null
    /\ file = Null /\ force = FALSE /\ rules = RulesFile(TRUE, << >>) /\ wb = Null /\ disk = Null
    /\ begin_bal = Null /\ end_bal = Null /\ runs = 0

Next ==
    \/ StreamLine
    \/ StreamReturn
    \/ BuildFrame
    \/ SigningPass
    \/ ScanLine
    \/ ScanReturn

Spec == Init /\ [][Next]_vars

\* assign_year alone, on every argument of Years \X Months \X Months
InitYear ==
    /\ entry = "assign_year" /\ pc = "call"
    /\ \E a \in Anchors : end_year = a[1] /\ end_month = a[2]
    /\ lines = << >>
    /\ i = 0 /\ sec_idx = -1 /\ gap_after_atm = FALSE /\ out = << >>
    /\ df = << >>
    /\ seen = {} /\ chk_out = << >>
    /\ y_in \in Years \X Months \X Months /\ y_out = 0
    /\ f_in = << >> /\ f_out = Null
    /\ file = Null /\ force = FALSE /\ rules = RulesFile(TRUE, << >>) /\ wb = Null /\ disk = Null
    /\ begin_bal = Null /\ end_bal = Null /\ runs = 0

NextYear == AssignYearCall

SpecYear == InitYear /\ [][NextYear]_vars

\* the pure functions alone, each on every argument of its bounded domain
InitCalls ==
    /\ entry \in {"decide_sign", "categorize_deposit", "categorize",
                  "parse_begin_end_balances"}
    /\ pc = "call"
    /\ \E a \in Anchors : end_year = a[1] /\ end_month = a[2]
    /\ lines = << >>
    /\ i = 0 /\ sec_idx = -1 /\ gap_after_atm = FALSE /\ out = << >>
    /\ df = << >>
    /\ seen = {} /\ chk_out = << >>
    /\ y_in = << 0, 0, 0 >> /\ y_out = 0
    /\ f_in \in CASE entry = "decide_sign" ->
                     [desc : Descs(SignWords, MaxDescLen), amt : SignAmounts]
                  [] entry = "categorize_deposit" ->
                     [desc : Descs(DepositWords, MaxDescLen)]
                  [] entry = "categorize" ->
                     [desc : RuleDescs, rules : RuleLists]
                  [] entry = "parse_begin_end_balances" ->
                     [lines : BalDocs]
    /\ f_out = Null
    /\ file = Null /\ force = FALSE /\ rules = RulesFile(TRUE, << >>) /\ wb = Null /\ disk = Null
    /\ begin_bal = Null /\ end_bal = Null /\ runs = 0

NextCalls ==
    \/ DecideSignCall
    \/ CategorizeDepositCall
    \/ CategorizeCall
    \/ BalancesCall

SpecCalls == InitCalls /\ [][NextCalls]_vars

\* one process calling parse_stream_simple on statement after statement
InitParses ==
    /\ entry = "parse_stream_simple" /\ pc = "call"
    /\ \E a \in Anchors : end_year = a[1] /\ end_month = a[2]
    /\ lines = << >>
    /\ i = 0 /\ sec_idx = -1 /\ gap_after_atm = FALSE /\ out = << >>
    /\ df = << >>
    /\ seen = {} /\ chk_out = << >>
    /\ y_in = << 0, 0, 0 >> /\ y_out = 0
    /\ f_in = << >> /\ f_out = << >>
    /\ file = Null /\ force = FALSE /\ rules = RulesFile(TRUE, << >>) /\ wb = Null /\ disk = Null
    /\ begin_bal = Null /\ end_bal = Null /\ runs = 0

NextParses == StreamCall

SpecParses == InitParses /\ [][NextParses]_vars

\* one call of parse_dep_add on a statement
InitDeposits ==
    /\ entry = "parse_dep_add" /\ pc = "call"
    /\ \E a \in Anchors : end_year = a[1] /\ end_month = a[2]
    /\ lines \in DepDocs
    /\ i = 0 /\ sec_idx = -1 /\ gap_after_atm = FALSE /\ out = << >>
    /\ df = << >>
    /\ seen = {} /\ chk_out = << >>
    /\ y_in = << 0, 0, 0 >> /\ y_out = 0
    /\ f_in = << >> /\ f_out = << >>
    /\ file = Null /\ force = FALSE /\ rules = RulesFile(TRUE, << >>) /\ wb = Null /\ disk = Null
    /\ begin_bal = Null /\ end_bal = Null /\ runs = 0

NextDeposits == DepAddCall

SpecDeposits == InitDeposits /\ [][NextDeposits]_vars

\* main, run after run on one dashboard file that does not exist at first
InitRun ==
    /\ entry = "main" /\ pc = "args"
    /\ end_year = 2018 /\ end_month = 12
    /\ lines = << >>
    /\ i = 0 /\ sec_idx = -1 /\ gap_after_atm = FALSE /\ out = << >>
    /\ df = << >>
    /\ seen = {} /\ chk_out = << >>
    /\ y_in = << 0, 0, 0 >> /\ y_out = 0
    /\ f_in = << >> /\ f_out = Null
    /\ file = Null /\ force = FALSE /\ rules = RulesFile(TRUE, << >>) /\ wb = Null /\ disk = Null
    /\ begin_bal = Null /\ end_bal = Null /\ runs = 0

NextRun ==
    \/ Start
    \/ Parse
    \/ Categorize
    \/ Signing
    \/ Detail
    \/ Merge
    \/ Reconcile
    \/ Save

SpecRun == InitRun /\ [][NextRun]_vars

\* -------------------------------------------------------------- properties

\* a step of parse_stream_simple, of parse_checks_anywhere, that reads a line
ReadsLine == entry = "main" /\ pc = "stream" /\ Len(lines') = Len(lines) + 1
ScansLine == entry = "parse_checks_anywhere" /\ pc = "scan" /\ Len(lines') = Len(lines) + 1
\* the line the step reads
TheLine == lines'[Len(lines')]
\* the step emits one candidate, the one it emits
EmitsOne == Len(out') = Len(out) + 1 /\ SubSeq(out', 1, Len(out)) = out
Emitted == out'[Len(out')]

IsCheckRow(line) == CheckRow(line).ok
IsDateLed(line) == DATE_LINE(line).ok
HasMoney(line) == \E j \in 1..Len(line) : IsAmt(line[j])
IsPlainDateRow(line) == IsDateLed(line) /\ ~IsCheckRow(line) /\ HasMoney(line)
IsHeader(line) == line \in { BreakA, BreakB }

MoneyIdx(line) == { j \in 1..Len(line) : IsAmt(line[j]) }
FirstMoney(line) == CHOOSE j \in MoneyIdx(line) : \A k \in MoneyIdx(line) : j <= k
LastMoney(line) == CHOOSE j \in MoneyIdx(line) : \A k \in MoneyIdx(line) : j >= k

Sgn(x) == IF x < 0 THEN -1 ELSE IF x > 0 THEN 1 ELSE 0
Srcs(rows) == [n \in 1..Len(rows) |-> rows[n].src]

\* C1, as stated: every candidate of a check row, of the stream parser and of the
\* check scanner, has an amount < 0
C1_ChecksStrictlyNegative ==
    /\ \A n \in 1..Len(out) : out[n].src = "CHECKS" => out[n].amount < 0
    /\ \A n \in 1..Len(chk_out) : chk_out[n].amount < 0

\* C1, amended: the candidate of a check row, of the stream parser and of the
\* check scanner, has the amount -|v| for the value v of the row's amount text,
\* whatever its sign: never positive, and < 0 unless the magnitude is zero
C1_ChecksMinusMagnitude ==
    [][ /\ (ReadsLine /\ IsCheckRow(TheLine)) =>
              /\ EmitsOne
              /\ Emitted.amount = -CheckRow(TheLine).amt.cents
              /\ Emitted.amount <= 0
              /\ (CheckRow(TheLine).amt.cents # 0 => Emitted.amount < 0)
        /\ (ScansLine /\ IsCheckRow(TheLine) /\ chk_out' # chk_out) =>
              /\ Len(chk_out') = Len(chk_out) + 1
              /\ chk_out'[Len(chk_out')].amount = -CheckRow(TheLine).amt.cents
              /\ chk_out'[Len(chk_out')].amount <= 0
              /\ (CheckRow(TheLine).amt.cents # 0 => chk_out'[Len(chk_out')].amount < 0)
      ]_vars

\* the check rows 1023 ^ 01/06 100.00 and CHECK 1024 12/28 -45.00 read by the
\* stream parser
C1_Witness ==
    /\ entry = "main" /\ lines = << ChkRow, ChkNeg >>
    /\ Len(out) = 2 /\ out[1].amount = -10000 /\ out[2].amount = -4500

\* C2, as stated: every candidate tagged ATM or ELECTRONIC has an amount < 0, and
\* so has its record after the signing pass
C2_AtmElecNegative ==
    /\ \A n \in 1..Len(out) : out[n].src \in {"ATM", "ELEC"} => out[n].amount < 0
    /\ pc = "done" =>
         \A n \in 1..Len(df) : df[n].src \in {"ATM", "ELEC"} => df[n].amount < 0

\* C2, amended: a candidate tagged ATM or ELECTRONIC has the amount -|v| for the
\* value v of its amount token, whatever its sign (never positive, < 0 unless the
\* magnitude is zero); the frame takes the rows as parsed and the signing pass
\* leaves the amount of such a row as it is
C2_AtmElecMinusMagnitude ==
    [][ /\ (ReadsLine /\ Len(out') = Len(out) + 1 /\ Emitted.src \in {"ATM", "ELEC"}) =>
              /\ Emitted.amount = -TheLine[FirstMoney(TheLine)].cents
              /\ Emitted.amount <= 0
              /\ (TheLine[FirstMoney(TheLine)].cents # 0 => Emitted.amount < 0)
        /\ (entry = "main" /\ pc = "frame") =>
              \A n \in 1..Len(df') : \E k \in 1..Len(out) : df'[n] = out[k]
        /\ (entry = "main" /\ pc = "sign") =>
              \A n \in 1..Len(df) :
                  df[n].src \in {"ATM", "ELEC"} =>
                      /\ df'[n].amount = df[n].amount
                      /\ df'[n].amount <= 0
      ]_vars

\* 01/05 DEPOSIT 500.00, unsigned, read in ATM and again in ELECTRONIC, and signed
C2_Witness ==
    /\ entry = "main" /\ pc = "done"
    /\ lines = << ChkRow, DepRow, Blank, DepRow >>
    /\ Srcs(df) = << "ATM", "ELEC", "CHECKS" >>
    /\ df[1].amount = -50000 /\ df[2].amount = -50000

\* the description carries a directional transfer, or the targeted rule of main
\* applies to it
HasOverride(desc) ==
    \/ ContainsPhrase(desc, << "TRANSFER", "TO" >>)
    \/ ContainsPhrase(desc, << "TRANSFER", "FROM" >>)
    \/ fix_mask(desc)

\* C3: a record tagged DEPOSITS without override has, in the final records, the
\* sign its amount was parsed with
C3_DepositKeepsParsedSign ==
    (entry = "main" /\ pc = "done") =>
        \A n \in 1..Len(df) :
            (df[n].src = "DEP_ADD" /\ ~HasOverride(df[n].desc)) =>
                \E k \in 1..Len(out) :
                    /\ out[k].date = df[n].date /\ out[k].desc = df[n].desc
                    /\ out[k].src = df[n].src
                    /\ Sgn(out[k].amount) = Sgn(df[n].amount)

\* C4, as stated: a date-led line that is not a check row moves NONE to DEPOSITS,
\* and CHECKS to ATM with gap_after_atm reset
C4_DateLedMovesSection ==
    [][ (ReadsLine /\ IsDateLed(TheLine) /\ ~IsCheckRow(TheLine)) =>
            /\ (sec_idx = -1 => sec_idx' = 0)
            /\ (sec_idx = 1 => sec_idx' = 2 /\ gap_after_atm' = FALSE)
      ]_vars

\* C4, amended: a date-led line that is not a check row and holds a money token
\* moves NONE to DEPOSITS, and CHECKS to ATM with gap_after_atm reset
C4_DateRowMovesSection ==
    [][ (ReadsLine /\ IsPlainDateRow(TheLine)) =>
            /\ (sec_idx = -1 => sec_idx' = 0)
            /\ (sec_idx = 1 => sec_idx' = 2 /\ gap_after_atm' = FALSE)
      ]_vars

\* a deposit row read in NONE, a check row, and a deposit row read in CHECKS
C4_Witness ==
    /\ entry = "main" /\ pc = "stream"
    /\ lines = << DepRow, ChkRow, DepRow >>
    /\ Srcs(out) = << "DEP_ADD", "CHECKS", "ATM" >>
    /\ sec_idx = 2 /\ gap_after_atm = FALSE

\* C5 for the lines that satisfy row: ATM is left for ELECTRONIC only by such a
\* line read while gap_after_atm is set; in ATM such a line is tagged ATM while
\* the gap is unset and ELECTRONIC once it is set
AtmToElec(row(_)) ==
    /\ (entry = "main" /\ sec_idx = 2 /\ sec_idx' = 3) =>
          ReadsLine /\ row(TheLine) /\ gap_after_atm
    /\ (ReadsLine /\ sec_idx = 2 /\ row(TheLine) /\ ~gap_after_atm) =>
          EmitsOne /\ Emitted.src = "ATM" /\ sec_idx' = 2
    /\ (ReadsLine /\ sec_idx = 2 /\ row(TheLine) /\ gap_after_atm) =>
          EmitsOne /\ Emitted.src = "ELEC" /\ sec_idx' = 3

\* C5, as stated: ATM is left for ELECTRONIC only on a date-led line read while
\* gap_after_atm is set; every date-led line read in ATM is tagged ATM while no
\* blank or other line has set the gap, and ELECTRONIC once one has
C5_DateLedAtmToElec == [][AtmToElec(IsDateLed)]_vars

\* C5, amended: ATM is left for ELECTRONIC only on a date-led line that is not a
\* check row and holds a money token, read while gap_after_atm is set; every such
\* line read in ATM is tagged ATM while no blank or other line has set the gap,
\* and ELECTRONIC once one has
C5_DateRowAtmToElec == [][AtmToElec(IsPlainDateRow)]_vars

\* two rows in ATM, a blank line, and the next row in ELECTRONIC
C5_Witness ==
    /\ entry = "main" /\ pc = "stream"
    /\ lines = << ChkRow, DepRow, DepRow, Blank, DepRow >>
    /\ Srcs(out) = << "CHECKS", "ATM", "ATM", "ELEC" >>
    /\ sec_idx = 3

\* C6: a line that is neither date-led nor a check row, blank lines included,
\* sets gap_after_atm in ATM; in the other sections it emits no candidate and
\* leaves the section and gap_after_atm as they are
C6_OtherLineSetsGapInAtm ==
    [][ (ReadsLine /\ ~IsDateLed(TheLine) /\ ~IsCheckRow(TheLine)) =>
            /\ (sec_idx = 2 => gap_after_atm' = TRUE)
            /\ (sec_idx # 2 =>
                  /\ out' = out /\ sec_idx' = sec_idx
                  /\ gap_after_atm' = gap_after_atm)
      ]_vars

\* TOTAL CHECKS PAID read in ATM
C6_Witness ==
    /\ entry = "main" /\ pc = "stream"
    /\ lines = << ChkRow, DepRow, Noise >>
    /\ sec_idx = 2 /\ gap_after_atm = TRUE /\ Len(out) = 2

\* C7: a table header read in ELECTRONIC stops the parser, which returns the
\* candidates it has; no line is read and no candidate emitted after it; the
\* same header read in another section does not stop it
C7_HeaderStopsInElectronic ==
    [][ /\ (ReadsLine /\ IsHeader(TheLine) /\ sec_idx >= 3) =>
              pc' = "frame" /\ out' = out
        /\ (ReadsLine /\ IsHeader(TheLine) /\ sec_idx < 3) =>
              pc' = "stream"
        /\ (entry = "main" /\ pc # "stream") =>
              out' = out /\ lines' = lines
      ]_vars

\* TRANSACTION DETAIL read in ELECTRONIC: the loop is left at this line
C7_Witness ==
    /\ entry = "main" /\ pc = "done"
    /\ lines = << ChkRow, DepRow, Blank, DepRow, BreakA >>
    /\ i = 4 /\ Len(out) = 3 /\ Len(df) = 3

\* C8: a check row, date-led or not, emits one candidate tagged CHECKS with the
\* description CHECK #<number>, moves NONE and DEPOSITS to CHECKS, and leaves the
\* section and gap_after_atm of CHECKS, ATM and ELECTRONIC as they are
C8_CheckRowFirst ==
    [][ (ReadsLine /\ IsCheckRow(TheLine)) =>
            /\ EmitsOne
            /\ Emitted.src = "CHECKS"
            /\ Len(Emitted.desc) = 2
            /\ Emitted.desc[1] = W("CHECK")
            /\ Emitted.desc[2].k = "hashnum"
            /\ (sec_idx \in {-1, 0} => sec_idx' = 1)
            /\ (sec_idx \in {1, 2, 3} =>
                  sec_idx' = sec_idx /\ gap_after_atm' = gap_after_atm)
      ]_vars

\* the date-led check row 02/30 CHECK 1026 PAID (50.00) read in ATM
C8_Witness ==
    /\ entry = "main" /\ pc = "stream"
    /\ lines = << ChkRow, DepRow, ChkDated >>
    /\ sec_idx = 2 /\ gap_after_atm = FALSE
    /\ out[3].src = "CHECKS"
    /\ out[3].desc = << W("CHECK"), HashNum([v |-> 1026, d |-> 4]) >>

\* C9 for the lines that satisfy row: the amount is that of the first money
\* token when the line has several or a BALANCE marker, of the last one
\* otherwise; the description is what stands between the date and that token
AmountAndDescription(row(_)) ==
    (ReadsLine /\ row(TheLine) /\ HasMoney(TheLine)) =>
        LET line == TheLine
            first == Cardinality(MoneyIdx(line)) > 1 \/ HasBalanceMarker(line)
            k == IF first THEN FirstMoney(line) ELSE LastMoney(line)
        IN  /\ EmitsOne
            /\ Abs(Emitted.amount) = line[k].cents
            /\ Emitted.desc = SubSeq(line, 2, k - 1)

\* C9, as stated: every date-led line takes the amount of its first money token
\* when it has several or a BALANCE marker, of its last one otherwise, and the
\* text between the date and that token as description
C9_DateLedAmount == [][AmountAndDescription(IsDateLed)]_vars

\* C9, amended: every date-led line that is not a check row takes the amount of
\* its first money token when it has several or a BALANCE marker, of its last
\* one otherwise, and the text between the date and that token as description
C9_DateRowAmount == [][AmountAndDescription(IsPlainDateRow)]_vars

\* 01/07 CARD PURCHASE 20.00 1,305.00: the amount is 20.00
C9_Witness ==
    /\ entry = "main" /\ lines = << TwoAmts >>
    /\ Len(out) = 1 /\ out[1].amount = 2000
    /\ out[1].desc = << W("CARD"), W("PURCHASE") >>

\* C10: assign_year returns end_year - 1 exactly when end_month = 1 and
\* txn_month = 12, and end_year otherwise; (2019,1,12) gives 2018, (2019,1,1)
\* and (2019,1,6) give 2019
C10_AssignYear ==
    (entry = "assign_year" /\ pc = "done") =>
        /\ y_out = (IF y_in[2] = 1 /\ y_in[3] = 12 THEN y_in[1] - 1 ELSE y_in[1])
        /\ (y_in = << 2019, 1, 12 >> => y_out = 2018)
        /\ (y_in = << 2019, 1, 1 >> => y_out = 2019)
        /\ (y_in = << 2019, 1, 6 >> => y_out = 2019)

\* assign_year(2019, 1, 12) has returned 2018
C10_Witness ==
    /\ entry = "assign_year" /\ pc = "done"
    /\ y_in = << 2019, 1, 12 >> /\ y_out = 2018

\* the (check_number, resolved_date, rounded_magnitude) triple of a check row
Triple(line) ==
    LET m == CheckRow(line)
    IN  << m.chkno, << assign_year(end_year, end_month, m.mm), m.mm, m.dd >>, m.amt.cents >>
\* the lines read that are the first to yield their triple
FirstOcc ==
    { j \in 1..Len(lines) :
        /\ IsCheckRow(lines[j])
        /\ \A k \in 1..(j - 1) : IsCheckRow(lines[k]) => Triple(lines[k]) # Triple(lines[j]) }
Rank(j) == Cardinality({ k \in FirstOcc : k <= j })

\* C19: the check scanner holds one record per distinct triple (check_number,
\* resolved_date, rounded_magnitude) of the lines read: the record of the first
\* line that yields the triple, in the order of these first lines; the later
\* lines with the same triple add nothing
C19_OneRecordPerTriple ==
    entry = "parse_checks_anywhere" =>
        /\ Len(chk_out) = Cardinality(FirstOcc)
        /\ \A j \in FirstOcc :
              LET r == chk_out[Rank(j)]
                  t == Triple(lines[j])
              IN  /\ r.desc = << W("CHECK"), HashNum(t[1]) >>
                  /\ r.date = t[2]
                  /\ r.amount = -t[3]

\* 1023 ^ 01/06 100.00, CHECK 1024 12/28 -45.00, then CHECK 1023 01/06 -100.00,
\* which yields the triple of the first line again
C19_Witness ==
    /\ entry = "parse_checks_anywhere"
    /\ lines = << ChkRow, ChkNeg, ChkAgain >>
    /\ Len(chk_out) = 2
    /\ chk_out[1].desc = << W("CHECK"), HashNum([v |-> 1023, d |-> 4]) >>
    /\ chk_out[2].desc = << W("CHECK"), HashNum([v |-> 1024, d |-> 4]) >>

\* the description holds the transfer phrasing towards dir ("FROM", "TO")
TransferCue(desc, dir) ==
    LET u == upper(desc)
    IN  TransferDir(u, dir) \/ (InText(<< dir >>, u) /\ InText(<< "PERSHING" >>, u))

\* C16: decide_sign(description, amt) returns an amount of magnitude |amt|; its
\* sign is that of the first rule that matches, in the order (1) transfer-from
\* phrasing positive, transfer-to phrasing negative, (2) a positive hint
\* positive, (3) a negative hint negative, (4) an income keyword positive,
\* (5) otherwise negative.
C16_SignByFirstRule ==
    (entry = "decide_sign" /\ pc = "done") =>
        LET d == f_in.desc
            a == f_in.amt
            u == upper(d)
            from == TransferCue(d, "FROM")
            to == TransferCue(d, "TO")
        IN  /\ Abs(f_out) = Abs(a)
            /\ (from /\ ~to) => f_out = Abs(a)
            /\ (to /\ ~from) => f_out = -Abs(a)
            /\ (~from /\ ~to) =>
                  f_out = IF AnyInText(POS_SIGN_HINTS, u) THEN Abs(a)
                          ELSE IF AnyInText(NEG_SIGN_HINTS, u) THEN -Abs(a)
                          ELSE IF AnyInText(DEFAULT_INCOME_KEYS, u) THEN Abs(a)
                          ELSE -Abs(a)

\* a description with a positive hint (DEPOSIT) and a negative hint (PAYMENT)
\* and no transfer phrasing has resolved positive
C16_Witness ==
    /\ entry = "decide_sign" /\ pc = "done"
    /\ f_in.desc = << W("DEPOSIT"), W("PAYMENT") >>
    /\ f_in.amt = -7500
    /\ f_out = 7500

\* C17: categorize_deposit returns the first subcategory, in the order Return,
\* Payroll, Transfer In, Check Deposit, Interest, that has a pattern matching
\* the description, and "Deposit" when none matches; a description with a
\* refund cue and a transfer-from cue is "Return".
C17_FirstSubcategory ==
    (entry = "categorize_deposit" /\ pc = "done") =>
        LET u == upper(f_in.desc)
            M(n) == SubcatMatches(DEPOSIT_SUBCATS[n], u)
        IN  /\ << DEPOSIT_SUBCATS[1].name, DEPOSIT_SUBCATS[2].name, DEPOSIT_SUBCATS[3].name,
                  DEPOSIT_SUBCATS[4].name, DEPOSIT_SUBCATS[5].name >>
                 = << "Return", "Payroll", "Transfer In", "Check Deposit", "Interest" >>
            /\ f_out = IF M(1) THEN "Return"
                       ELSE IF M(2) THEN "Payroll"
                       ELSE IF M(3) THEN "Transfer In"
                       ELSE IF M(4) THEN "Check Deposit"
                       ELSE IF M(5) THEN "Interest"
                       ELSE "Deposit"
            /\ (ContainsPhrase(u, << "REFUND" >>) /\ ContainsPhrase(u, << "TRANSFER", "FROM" >>))
                  => f_out = "Return"

\* the refund of a transfer has been classified "Return"
C17_Witness ==
    /\ entry = "categorize_deposit" /\ pc = "done"
    /\ f_in.desc = << W("REFUND"), W("TRANSFER"), W("FROM") >>
    /\ f_out = "Return"

\* the keyword of rule matches desc under the rule's match_type and
\* case_sensitive setting (a regex keyword being a literal text, a regex match
\* is an occurrence of that text)
MatchesUnderSettings(rule, desc) ==
    LET hay == IF rule.case_sensitive THEN desc ELSE upper(desc)
        needle == IF rule.case_sensitive THEN rule.keyword ELSE upper_kw(rule.keyword)
    IN  \/ rule.match_type \in {"contains", "regex"} /\ InText(needle, hay)
        \/ rule.match_type = "startswith" /\ StartsText(needle, hay)

\* C18: the category of a non-deposit record is that of the first rule of the
\* supplied list whose keyword matches the description under its match_type
\* and case_sensitive setting; when no rule matches it is the result of the
\* built-in default classifier ("Other" when nothing matches).
C18_FirstRuleThenDefault ==
    (entry = "categorize" /\ pc = "done") =>
        LET d == f_in.desc
            rs == f_in.rules
            hits == { n \in 1..Len(rs) : MatchesUnderSettings(rs[n], d) }
        IN  f_out = IF hits = {} THEN categorize_default(d)
                    ELSE rs[CHOOSE n \in hits : \A m \in hits : n <= m].category

PositivePart(a) == IF a > 0 THEN a ELSE 0
NegativeMagnitude(a) == IF a < 0 THEN Abs(a) ELSE 0

\* the sums of the positive parts, of the negative magnitudes, of the first n amounts
RECURSIVE PositiveSum(_, _)
PositiveSum(rows, n) ==
    IF n = 0 THEN 0 ELSE PositiveSum(rows, n - 1) + PositivePart(rows[n].amount)
RECURSIVE MagnitudeSum(_, _)
MagnitudeSum(rows, n) ==
    IF n = 0 THEN 0 ELSE MagnitudeSum(rows, n - 1) + NegativeMagnitude(rows[n].amount)

\* the run has reached SAVE with its reconciliation record in the ledger
Reconciled == entry = "main" /\ pc = "save" /\ ValidDate(stmt_end(file))
\* the records of the ledger for the statement end date of the run
RunRecords == { n \in 1..Len(wb.ledger) : wb.ledger[n].date = stmt_end(file) }

\* C11: for a non-empty final transaction list, computed_deposits is the sum of
\* the amounts > 0 and computed_withdrawals the sum of the magnitudes of the
\* amounts < 0; computed_end = begin + computed_deposits - computed_withdrawals
\* when begin is not null, and computed_end and delta_end are null when it is.
C11_ComputedTotals ==
    Reconciled =>
        /\ df # << >>
        /\ RunRecords # {}
        /\ \A n \in RunRecords :
              LET r == wb.ledger[n]
                  deposits == PositiveSum(df, Len(df))
                  withdrawals == MagnitudeSum(df, Len(df))
              IN  /\ r.dep = deposits
                  /\ r.wd = withdrawals
                  /\ begin_bal # Null =>
                        r.computed_end = Some(begin_bal.v + deposits - withdrawals)
                  /\ begin_bal = Null => (r.computed_end = Null /\ r.diff = Null)

\* statement b (a deposit, two withdrawals, no balance line) is reconciled:
\* 500.00 in, 175.00 out, no computed end
C11_Witness ==
    /\ Reconciled
    /\ file.name[1] = "b"
    /\ begin_bal = Null
    /\ \E n \in RunRecords :
          /\ wb.ledger[n].dep = 50000 /\ wb.ledger[n].wd = 17500
          /\ wb.ledger[n].computed_end = Null

\* d is null when a or b is null, and is a - b otherwise
IsDelta(d, a, b) ==
    /\ (a = Null \/ b = Null) <=> d = Null
    /\ (a # Null /\ b # Null) => d = Some(a.v - b.v)

\* C12: each reconciliation delta (delta_end, delta_deposits, delta_withdrawals)
\* is null whenever one of its two operands is null and the difference of the
\* operands otherwise; a null operand is not read as zero and raises no error
\* (the step reaches SAVE with its record).
C12_NullDeltas ==
    /\ Reconciled =>
          /\ RunRecords # {}
          /\ \A n \in RunRecords :
                LET r == wb.ledger[n]
                IN  /\ IsDelta(r.diff, r.computed_end, r.end_reported)
                    /\ IsDelta(r.d_dep, Some(r.dep), r.stmt_dep)
                    /\ IsDelta(r.d_wd, Some(r.wd), r.stmt_wd)
                    /\ r.end_reported = end_bal
                    /\ r.stmt_dep = parse_statement_totals(lines)[1]
                    /\ r.stmt_wd = parse_statement_totals(lines)[2]
    /\ (entry = "main" /\ pc = "failed") => (~file.exists \/ ~rules.readable)

\* statement c (balances 1,000.00 and 1,400.00, deposits total 500.00, no
\* withdrawals total) is reconciled: delta_end 115.00, delta_deposits 15.00,
\* delta_withdrawals null
C12_Witness ==
    /\ Reconciled
    /\ file.name[1] = "c"
    /\ \E n \in RunRecords :
          /\ wb.ledger[n].diff = Some(11500)
          /\ wb.ledger[n].d_dep = Some(1500)
          /\ wb.ledger[n].stmt_wd = Null /\ wb.ledger[n].d_wd = Null

\* no two records of the ledger carry the same Statement End
OnePerEndDate(ledger) ==
    \A m, n \in 1..Len(ledger) : ledger[m].date = ledger[n].date => m = n

ReconciliationRaises ==
    entry = "main" /\ pc = "recon" /\ ~ValidDate(stmt_end(file))

\* the Transactions sheets of a workbook
TxSheets(w) == << w.all, w.year, w.detail >>

\* C14: an error raised in balance reconciliation is caught: no record is
\* written for the statement, the transaction sheets are those the merge left
\* (as they are when reconciliation succeeds), and the run goes on to save the
\* workbook and complete.
C14_ReconciliationErrorCaught ==
    [][ /\ (entry = "main" /\ pc = "recon") =>
              /\ pc' = "save"
              /\ TxSheets(wb') = TxSheets(wb)
              /\ disk' = disk
        /\ ReconciliationRaises => wb'.ledger = wb.ledger
        /\ (entry = "main" /\ pc = "save") =>
              /\ pc' = "done"
              /\ disk' = wb
              /\ ~ValidDate(stmt_end(file)) =>
                    /\ \A n \in 1..Len(wb.ledger) : wb.ledger[n].date # stmt_end(file)
                    /\ disk # Null => disk'.ledger = disk.ledger
      ]_vars

\* statement d (named for 2019-02-30) completed: its transactions are saved,
\* the ledger has no record for it
C14_Witness ==
    /\ entry = "main" /\ pc = "done"
    /\ file.name[1] = "d"
    /\ disk.all # << >>
    /\ \E n \in 1..Len(disk.all) : disk.all[n].amount = 50000
    /\ \A n \in 1..Len(disk.ledger) : disk.ledger[n].date # stmt_end(file)

\* every record of the run's frame has its row (by date, description and
\* amount) in All Transactions
Merged ==
    \A n \in 1..Len(df) :
       \E m \in 1..Len(wb.all) :
          << wb.all[m].date, wb.all[m].desc, wb.all[m].amount >>
             = << df[n].date, df[n].desc, df[n].amount >>

\* C15 (as stated): the dashboard file is written only after the full
\* transaction list and the reconciliation record have been computed, and a
\* run that fails earlier leaves the file as it was.
C15_WrittenAfterRecord ==
    [][ /\ disk' # disk =>
              /\ entry = "main" /\ pc = "save"
              /\ Merged
              /\ RunRecords # {}
        /\ (entry = "main" /\ pc' = "failed") => disk' = disk
      ]_vars

\* C15 (amended): the dashboard file is written in two places only: at the
\* end of the run, after the merge and after the reconciliation step has
\* either put its record in the ledger or been skipped on a caught error,
\* and right after parsing when no transaction was parsed (with the workbook
\* as it was loaded). A run that fails before that leaves the file as it was.
C15_WrittenAtTheEnd ==
    [][ /\ disk' # disk =>
              /\ entry = "main"
              /\ disk' = wb
              /\ \/ /\ pc = "save"
                    /\ Merged
                    /\ ValidDate(stmt_end(file)) <=> RunRecords # {}
                 \/ /\ pc = "parse" /\ df' = << >>
                    /\ wb = IF disk = Null THEN NewWorkbook ELSE disk
        /\ (entry = "main" /\ pc' = "failed") => disk' = disk
      ]_vars

\* a second run failed on its rules file after the first run saved statement
\* c: the saved workbook still holds the first run's records only
C15_Witness ==
    /\ entry = "main" /\ pc = "failed" /\ runs = 2
    /\ file.exists /\ ~rules.readable
    /\ file.name[1] = "a"
    /\ Len(df) = 3
    /\ disk # Null
    /\ Len(disk.ledger) = 1 /\ disk.ledger[1].date = << 2019, 2, 28 >>
    /\ Len(disk.all) = 2

\* the run of the scenario has been signed, merged and reconciled
ScenarioRun == entry = "main" /\ file = Scenario /\ pc \in {"save", "done"}

\* C20: the three transaction lines (mobile check deposit 500.00 on 01/05,
\* check row 1023 ^ 01/06 100.00, ACH debit 75.00 on 01/07) with the anchor
\* (2019, 1) and the begin balance 1,000.00 give exactly three records:
\* DEPOSITS +500.00 "Check Deposit", CHECKS -100.00 "Checks", ATM -75.00, all
\* of 2019, with deposits 500.00, withdrawals 175.00, computed end 1,325.00.
C20_Scenario ==
    ScenarioRun =>
       /\ << end_year, end_month >> = << 2019, 1 >>
       /\ begin_bal = Some(100000)
       /\ Len(df) = 3
       /\ [n \in 1..3 |-> << df[n].src, df[n].amount >>]
             = << << "DEP_ADD", 50000 >>, << "CHECKS", -10000 >>, << "ATM", -7500 >> >>
       /\ df[1].cat = "Check Deposit" /\ df[2].cat = "Checks"
       /\ [n \in 1..3 |-> df[n].date]
             = << << 2019, 1, 5 >>, << 2019, 1, 6 >>, << 2019, 1, 7 >> >>
       /\ \E n \in RunRecords :
             /\ wb.ledger[n].dep = 50000
             /\ wb.ledger[n].wd = 17500
             /\ wb.ledger[n].computed_end = Some(132500)

\* the scenario's run completed and its three rows are in the saved workbook
C20_Witness ==
    /\ ScenarioRun /\ pc = "done" /\ runs = 1
    /\ Len(disk.all) = 3
    /\ disk.ledger[1].computed_end = Some(132500)

\* the stream parser is at its loop
Streaming == entry = "main" /\ pc = "stream"

\* C26 (as stated): immediately after every section entry of the stream
\* parser (to DEPOSITS, CHECKS, ATM and ELECTRONIC) gap_after_atm is false.
C26_GapFalseOnEntry ==
    [][ (Streaming /\ sec_idx' # sec_idx) => gap_after_atm' = FALSE ]_vars

\* C26 (amended): immediately after the entry to DEPOSITS, to CHECKS and to
\* ATM gap_after_atm is false; the entry to ELECTRONIC is taken only with
\* gap_after_atm true and leaves it true.
C26_GapOnEntry ==
    [][ (Streaming /\ sec_idx' # sec_idx) =>
           /\ sec_idx' \in 0..3
           /\ gap_after_atm' = (sec_idx' = 3)
           /\ sec_idx' = 3 => (sec_idx = 2 /\ gap_after_atm)
      ]_vars

\* the line just read entered ELECTRONIC: its candidate follows an ATM one
C26_Witness ==
    /\ Streaming
    /\ sec_idx = 3 /\ gap_after_atm
    /\ Len(out) >= 2
    /\ out[Len(out)].src = "ELEC" /\ out[Len(out) - 1].src = "ATM"
    /\ DATE_LINE(lines[Len(lines)]).ok

\* line starts with a date and holds no money text
DateLedNoMoney(line) == DATE_LINE(line).ok /\ AMT_RE(line) = << >>

\* the lines of ls without the date-led lines that hold no money text
RECURSIVE WithoutNoMoney(_)
WithoutNoMoney(ls) ==
    IF ls = << >> THEN << >>
    ELSE IF DateLedNoMoney(Head(ls)) THEN WithoutNoMoney(Tail(ls))
    ELSE << Head(ls) >> \o WithoutNoMoney(Tail(ls))

\* C27: a date-led line with no parseable money token is dropped by the
\* stream parser: the step that reads it emits no candidate, leaves the
\* section and gap_after_atm unchanged and keeps the loop going, and the
\* candidates, section and flag after any input are those of the input
\* without such lines (every later line is parsed as if it were not there).
C27_NoMoneyLineDropped ==
    Streaming =>
       /\ i = Len(lines)
       /\ LET st == parse_stream_simple(WithoutNoMoney(lines), end_year, end_month)
          IN  /\ out = st.out
              /\ sec_idx = st.sec_idx
              /\ gap_after_atm = st.gap_after_atm
       /\ (lines # << >> /\ DateLedNoMoney(lines[Len(lines)])) =>
             LET before == parse_stream_simple(SubSeq(lines, 1, Len(lines) - 1),
                                                end_year, end_month)
             IN  /\ out = before.out
                 /\ sec_idx = before.sec_idx
                 /\ gap_after_atm = before.gap_after_atm

\* in ATM, a dated line without money was read and the dated line after it
\* gave the next ATM candidate
C27_Witness ==
    /\ Streaming
    /\ Len(lines) >= 3
    /\ DateLedNoMoney(lines[Len(lines) - 1])
    /\ DATE_LINE(lines[Len(lines)]).ok /\ AMT_RE(lines[Len(lines)]) # << >>
    /\ sec_idx = 2 /\ ~gap_after_atm
    /\ Len(out) >= 2
    /\ out[Len(out)].src = "ATM" /\ out[Len(out) - 1].src = "ATM"

\* the balances the statement text holds: those of the checking header when a
\* line has one, else the labelled Beginning Balance and Ending (Closing)
\* Balance, each on its own
FoundBalances(lines_) ==
    IF \E n \in 1..Len(lines_) : SpecificAt(lines_[n]) # {}
    THEN HeaderBalances(lines_, TRUE)
    ELSE IF \E n \in 1..Len(lines_) : GenericAt(lines_[n]) # {}
    THEN HeaderBalances(lines_, FALSE)
    ELSE << LabelBalance(lines_, {"BEGINNING"}), LabelBalance(lines_, {"ENDING", "CLOSING"}) >>

\* C28: each statement balance is optional on its own: the reconciliation
\* record of a run reports the beginning balance whenever the text holds one
\* and the ending balance whenever the text holds one; only the field of a
\* balance that is not found, and the values computed from it, are null; and a
\* record is emitted in every case.
C28_BalancesIndependent ==
    Reconciled =>
       /\ RunRecords # {}
       /\ \A n \in RunRecords :
             LET r == wb.ledger[n]
                 found == FoundBalances(lines)
             IN  /\ r.begin = found[1]
                 /\ r.end_reported = found[2]
                 /\ (r.computed_end = Null) <=> (found[1] = Null)
                 /\ (r.diff = Null) <=> (found[1] = Null \/ found[2] = Null)

\* document ls has the line l
HasLine(ls, l) == \E n \in 1..Len(ls) : ls[n] = l

\* C29: parse_begin_end_balances resolves the balances by priority over the
\* whole document: the exact checking header wins wherever it stands, before
\* or after a generic "Checking <account> <begin> <end>" line; the generic
\* header wins over the labelled Beginning / Ending Balance lines; the
\* labelled pair is the result without a header; with no header and no label
\* the result is (null, null).
C29_ThreeTiers ==
    (entry = "parse_begin_end_balances" /\ pc = "done") =>
       LET ls == f_in.lines
       IN  /\ HasLine(ls, HdrExact) => f_out = << Some(200000), Some(230000) >>
           /\ (~HasLine(ls, HdrExact) /\ HasLine(ls, HdrBal)) =>
                 f_out = << Some(100000), Some(132500) >>
           /\ (~HasLine(ls, HdrExact) /\ ~HasLine(ls, HdrBal)
               /\ HasLine(ls, BegLbl) /\ HasLine(ls, EndLbl)) =>
                 f_out = << Some(100000), Some(140000) >>
           /\ (~HasLine(ls, HdrExact) /\ ~HasLine(ls, HdrBal)
               /\ ~HasLine(ls, BegLbl) /\ ~HasLine(ls, EndLbl)) =>
                 f_out = << Null, Null >>

\* the exact header stands after a generic header and a label line, and wins
C29_Witness ==
    /\ entry = "parse_begin_end_balances" /\ pc = "done"
    /\ f_in.lines = << HdrBal, EndLbl, HdrExact >>
    /\ f_out = << Some(200000), Some(230000) >>

\* the step emits the candidate of a date-led line that is not a check row
EmitsDateLed == ReadsLine /\ IsDateLed(TheLine) /\ ~IsCheckRow(TheLine) /\ EmitsOne

DepDone == entry = "parse_dep_add" /\ pc = "done"

C22_NearPreferred ==
    DepDone /\ f_out.best # Null =>
        /\ (\E n \in 1..Len(f_out.uniq) : f_out.uniq[n].pos <= 20) => f_out.best.pos <= 20
        /\ f_out.best.pos > 20 => \A n \in 1..Len(f_out.uniq) : f_out.uniq[n].pos > 20

\* a window 21 lines from its header has a higher score than the chosen window
\* and is as long; the chosen window is within 20 lines of its header
C22_Witness ==
    /\ DepDone /\ f_out.best # Null /\ f_out.best.pos <= 20
    /\ \E n \in 1..Len(f_out.uniq) :
          /\ f_out.uniq[n].pos = 21
          /\ score_depositish(f_out.uniq[n].r) > score_depositish(f_out.best.r)
          /\ Len(f_out.uniq[n].r) >= Len(f_out.best.r)

\* ---------------------------------------------------------------- C23
\* no line of the statement holds the deposits header
NoHeader == \A n \in 1..Len(lines) : ~DEP_ADD_HDR(lines[n])

\* the date-led lines of the statement
DateLed == { n \in 1..Len(lines) : DATE_LINE(lines[n]).ok }

\* lines a..b are a block of date-led lines with no date-led line around it
IsBlock(a, b) ==
    /\ a <= b
    /\ \A n \in a..b : n \in DateLed
    /\ a - 1 \notin DateLed /\ b + 1 \notin DateLed

\* C23: the call returns a list of rows for every statement. Without a
\* deposits header the candidate windows are the contiguous blocks of
\* date-led lines, one window per block, and the chosen window is one of
\* them; without a header and without a date-led line the list is empty.
C23_FallbackScan ==
    DepDone =>
        /\ \A n \in 1..Len(f_out.rows) :
              f_out.rows[n].src = "DEP_ADD" /\ f_out.rows[n].amount >= 0
        /\ NoHeader =>
              /\ ~f_out.anchored
              /\ \A n \in 1..Len(f_out.uniq) :
                    \E a, b \in DateLed :
                       /\ IsBlock(a, b)
                       /\ f_out.uniq[n].i = a - 2
                       /\ f_out.uniq[n].r = SubSeq(lines, a, b)
              /\ \A a, b \in DateLed :
                    IsBlock(a, b) => \E n \in 1..Len(f_out.uniq) : f_out.uniq[n].i = a - 2
              /\ IF DateLed # {}
                 THEN /\ f_out.best # Null
                      /\ \E n \in 1..Len(f_out.uniq) : f_out.uniq[n] = f_out.best
                      /\ f_out.rows = DepRows(f_out.best.r, end_year, end_month)
                 ELSE f_out.best = Null /\ f_out.rows = << >>

\* no header, two blocks of date-led lines, and rows from the second block
C23_Witness ==
    /\ DepDone /\ NoHeader
    /\ Len(f_out.uniq) = 2 /\ f_out.best = f_out.uniq[2]
    /\ f_out.rows # << >>

\* ---------------------------------------------------------------- C24
\* line n holds the deposits header on one line
HeaderAt(n) == DEP_ADD_HDR(lines[n])

\* lines n and n + 1 hold the deposits header split in two: Deposit(s) on the
\* first, Addition(s) or Credit(s) on the second
SplitHeaderAt(n) ==
    /\ n < Len(lines)
    /\ \E j \in 1..Len(lines[n]) : IsWord(lines[n][j], "DEPOSIT") \/ IsWord(lines[n][j], "DEPOSITS")
    /\ \E j \in 1..Len(lines[n + 1]) :
          \E w \in { "ADDITION", "ADDITIONS", "CREDIT", "CREDITS" } : IsWord(lines[n + 1][j], w)

\* C24: every occurrence of the deposits header that has date-led lines after
\* it, on one line or split across two consecutive lines, gives a
\* header-anchored candidate window: the candidates are the header-anchored
\* ones, and one of them starts at the header and holds the run after it.
C24_SplitHeaderAnchored ==
    DepDone =>
        \A n \in 1..Len(lines) :
           /\ HeaderAt(n) /\ grab_date_run(lines, n - 1) # << >> =>
                 /\ f_out.anchored
                 /\ \E k \in 1..Len(f_out.uniq) :
                       f_out.uniq[k].i = n - 1 /\ f_out.uniq[k].r = grab_date_run(lines, n - 1)
           /\ SplitHeaderAt(n) /\ grab_date_run(lines, n) # << >> =>
                 /\ f_out.anchored
                 /\ \E k \in 1..Len(f_out.uniq) :
                       f_out.uniq[k].i \in { n - 1, n } /\ f_out.uniq[k].r = grab_date_run(lines, n)

\* ---------------------------------------------------------------- C31
\* the section tags of the stream parser's candidates
SectionTags == { "DEP_ADD", "CHECKS", "ATM", "ELEC" }

\* C31: a line the stream parser reads adds at most one candidate to its
\* output; the candidate is tagged DEP_ADD, CHECKS, ATM or ELEC, never OTHER,
\* and it is tagged CHECKS exactly when the line is a check row, so that the
\* candidate of a date-led line that is no check row is never tagged CHECKS.
C31_OneTaggedCandidate ==
    [][ReadsLine =>
          LET line == lines'[Len(lines')]
              c == out'[Len(out')]
          IN  \/ out' = out
              \/ /\ out' = Append(out, c)
                 /\ c.src \in SectionTags
                 /\ c.src = "CHECKS" <=> CheckRow(line).ok
                 /\ c.src # "CHECKS" => DATE_LINE(line).ok]_vars

\* a check row, a date-led row tagged ATM after it, and a line that gave no
\* candidate
C31_Witness ==
    /\ entry = "main" /\ pc = "stream"
    /\ Len(out) < Len(lines)
    /\ \E n \in 1..(Len(out) - 1) : out[n].src = "CHECKS" /\ out[n + 1].src = "ATM"

\* ---------------------------------------------------------------- C32
\* C32: the signing pass leaves the number of records, their order and the
\* magnitude of every amount as they were; after it a record tagged CHECKS,
\* ATM or ELEC has an amount <= 0, and a record tagged DEP_ADD has an amount
\* >= 0 unless its description matches online payment ... to ... credit
\* card, and then its amount is <= 0.
C32_SignedBySection ==
    [][entry = "main" /\ pc = "sign" =>
          /\ Len(df') = Len(df)
          /\ \A n \in 1..Len(df) :
                LET r == df'[n]
                IN  /\ Abs(r.amount) = Abs(df[n].amount)
                    /\ r.src = df[n].src /\ r.desc = df[n].desc /\ r.date = df[n].date
                    /\ r.src \in {"CHECKS", "ATM", "ELEC"} => r.amount <= 0
                    /\ r.src = "DEP_ADD" /\ ~fix_mask(r.desc) => r.amount >= 0
                    /\ r.src = "DEP_ADD" /\ fix_mask(r.desc) => r.amount <= 0]_vars

\* after the signing pass: a deposit parsed with a negative amount is
\* positive, an online payment to a credit card among the deposits is
\* negative, and there is a record of another section
C32_Witness ==
    /\ entry = "main" /\ pc = "done" /\ Len(df) = Len(SortByDate(DropNa(out)))
    /\ \E n, m, k \in 1..Len(df) :
          /\ df[n].src = "DEP_ADD" /\ fix_mask(df[n].desc) /\ df[n].amount < 0
          /\ df[m].src = "DEP_ADD" /\ df[m].amount > 0
          /\ SortByDate(DropNa(out))[m].amount < 0
          /\ df[k].src \in {"CHECKS", "ATM", "ELEC"} /\ df[k].amount < 0


\* --------------------------------------------- the scanners, step by step

\* is_check_txn(line): a CHECKS PAID header, CHECK and a 3-6 digit number
\* ("CHECK 100.00" counts: the digits end at the point), or a check row
is_check_txn(line) ==
    \/ /\ Len(line) >= 2
       /\ IsWord(line[1], "CHECK") \/ IsWord(line[1], "CHECKS")
       /\ IsWord(line[2], "PAID")
    \/ \E j \in 1..(Len(line) - 1) :
          /\ IsWord(line[j], "CHECK")
          /\ LET t == line[j + 1]
             IN  \/ t.k = "num" /\ t.d \in 3..6
                 \/ /\ IsAmt(t) /\ ~t.lead /\ ~t.dollar /\ ~t.paren
                    /\ t.cents \in 10000..99999
    \/ CHECK_LINE_RE1(line).ok
    \/ CHECK_LINE_RE2(line).ok

\* CHECKS PAID
ChkPaid == << W("CHECKS"), W("PAID") >>
\* CHECKS PAID 100.00
ChkSummary == << W("CHECKS"), W("PAID"), Plain(10000) >>

\* the documents the scanners walk: every sequence of up to MaxGrabLines
\* lines for the fallback scan and, below a header, for grab_date_run, of up
\* to MaxLoopLines lines for the stream parser
MaxGrabLines == 5
MaxLoopLines == 5
GrabLines == { Blank, DepRow, BreakB, ChkPaid, ChkSummary }
GrabDocs == UNION { [1..n -> GrabLines] : n \in 0..MaxGrabLines }
BlockLines == { Blank, DepRow, NoAmt, ChkPaid }
BlockDocs == UNION { [1..n -> BlockLines] : n \in 0..MaxGrabLines }
LoopLines == { Blank, DepRow, ChkRow, BreakB }
LoopDocs == UNION { [1..n -> LoopLines] : n \in 0..MaxLoopLines }

\* grab_date_run: one iteration of the while loop, a header row ending a
\* started run
GrabBodyHeaderEnds(g, raw) ==
    LET step == [g EXCEPT !.j = g.j + 1]
        stop == [g EXCEPT !.brk = TRUE]
    IN  IF MAJOR_STOP(raw) THEN stop
        ELSE IF HEADER_ROW(raw) THEN (IF g.started THEN stop ELSE step)
        ELSE IF DATE_LINE(raw).ok
             THEN [step EXCEPT !.out = Append(g.out, raw), !.started = TRUE]
        ELSE IF is_check_txn(raw) THEN (IF g.started THEN stop ELSE step)
        ELSE IF g.started THEN stop
        ELSE step

\* grab_date_run: one iteration of the while loop, a line before the run
\* left where it is
GrabBodyStuck(g, raw) ==
    LET step == [g EXCEPT !.j = g.j + 1]
        stop == [g EXCEPT !.brk = TRUE]
    IN  IF MAJOR_STOP(raw) THEN stop
        ELSE IF HEADER_ROW(raw) THEN step
        ELSE IF DATE_LINE(raw).ok
             THEN [step EXCEPT !.out = Append(g.out, raw), !.started = TRUE]
        ELSE IF g.started THEN stop
        ELSE g

\* grab_date_run: one iteration of the while loop on the locals g and the
\* line raw = lines[j]
GrabBody(g, raw) ==
    LET step == [g EXCEPT !.j = g.j + 1]
        stop == [g EXCEPT !.brk = TRUE]
    IN  IF MAJOR_STOP(raw) THEN stop
        ELSE IF HEADER_ROW(raw) THEN step
        ELSE IF DATE_LINE(raw).ok
             THEN [step EXCEPT !.out = Append(g.out, raw), !.started = TRUE]
        ELSE IF is_check_txn(raw) THEN (IF g.started THEN stop ELSE step)
        ELSE IF g.started THEN stop
        ELSE step

loopRest == << anchorVars, lines, df, scanVars, yearVars, f_in, runVars >>

\* while j < N: ... (the locals j, out, started are the fields of f_out)
GrabStep ==
    /\ entry = "grab_date_run" /\ pc = "loop"
    /\ f_out.j < Len(lines)
    /\ LET nx == GrabBody(f_out, lines[f_out.j + 1])
       IN  /\ f_out' = [nx EXCEPT !.brk = FALSE]
           /\ pc' = IF nx.brk THEN "done" ELSE "loop"
    /\ UNCHANGED << loopRest, streamVars >>

\* j = N: the loop ends and out is returned
GrabReturn ==
    /\ entry = "grab_date_run" /\ pc = "loop"
    /\ f_out.j >= Len(lines)
    /\ pc' = "done"
    /\ UNCHANGED << loopRest, streamVars, f_out >>

\* parse_dep_add, the fallback scan: one iteration of while j < N (the
\* locals j, k, runs are the fields of f_out); at a date-led line the inner
\* loop follows
BlockStep ==
    /\ entry = "parse_dep_add" /\ pc = "loop"
    /\ f_out.j < Len(lines)
    /\ IF DATE_LINE(lines[f_out.j + 1]).ok
       THEN LET r == grab_date_run(lines, f_out.j - 1)
            IN  /\ f_out' = [f_out EXCEPT
                               !.runs = IF r # << >>
                                        THEN Append(@, [i |-> f_out.j - 1, r |-> r])
                                        ELSE @,
                               !.k = f_out.j + 1]
                /\ pc' = "skip"
       ELSE /\ f_out' = [f_out EXCEPT !.j = @ + 1]
            /\ pc' = "loop"
    /\ UNCHANGED << loopRest, streamVars >>

\* while k < N and DATE_LINE.match(lines[k]): k += 1, and then j = k
SkipStep ==
    /\ entry = "parse_dep_add" /\ pc = "skip"
    /\ IF f_out.k < Len(lines) /\ DATE_LINE(lines[f_out.k + 1]).ok
       THEN /\ f_out' = [f_out EXCEPT !.k = @ + 1]
            /\ pc' = "skip"
       ELSE /\ f_out' = [f_out EXCEPT !.j = f_out.k]
            /\ pc' = "loop"
    /\ UNCHANGED << loopRest, streamVars >>

BlockReturn ==
    /\ entry = "parse_dep_add" /\ pc = "loop"
    /\ f_out.j >= Len(lines)
    /\ pc' = "done"
    /\ UNCHANGED << loopRest, streamVars, f_out >>

\* parse_stream_simple: one iteration of while i < N on a given document
StreamStep ==
    /\ entry = "parse_stream_simple" /\ pc = "loop"
    /\ i < Len(lines)
    /\ LET st == [i |-> i, sec_idx |-> sec_idx, gap_after_atm |-> gap_after_atm,
                  out |-> out, brk |-> FALSE]
           nx == StreamBody(st, lines[i + 1], end_year, end_month)
       IN  /\ i' = nx.i /\ sec_idx' = nx.sec_idx /\ gap_after_atm' = nx.gap_after_atm
           /\ out' = nx.out
           /\ pc' = IF nx.brk THEN "done" ELSE "loop"
    /\ UNCHANGED << loopRest, f_out >>

StreamExit ==
    /\ entry = "parse_stream_simple" /\ pc = "loop"
    /\ i >= Len(lines)
    /\ pc' = "done"
    /\ UNCHANGED << loopRest, streamVars, f_out >>

\* a call of one of the three scanners on one document; grab_date_run starts
\* below a deposits header on the first line
InitLoops ==
    /\ pc = "loop"
    /\ \E a \in Anchors : end_year = a[1] /\ end_month = a[2]
    /\ \/ /\ entry = "grab_date_run"
          /\ \E d \in GrabDocs : lines = << DepHdr >> \o d
          /\ f_in = [start_idx |-> 0]
          /\ f_out = [j |-> 1, out |-> << >>, started |-> FALSE, brk |-> FALSE]
       \/ /\ entry = "parse_dep_add"
          /\ lines \in BlockDocs
          /\ f_in = << >>
          /\ f_out = [j |-> 0, k |-> 0, runs |-> << >>]
       \/ /\ entry = "parse_stream_simple"
          /\ lines \in LoopDocs
          /\ f_in = << >>
          /\ f_out = << >>
    /\ i = 0 /\ sec_idx = -1 /\ gap_after_atm = FALSE /\ out = << >>
    /\ df = << >>
    /\ seen = {} /\ chk_out = << >>
    /\ y_in = << 0, 0, 0 >> /\ y_out = 0
    /\ file = Null /\ force = FALSE /\ rules = RulesFile(TRUE, << >>) /\ wb = Null /\ disk = Null
    /\ begin_bal = Null /\ end_bal = Null /\ runs = 0

NextLoops ==
    \/ GrabStep
    \/ GrabReturn
    \/ BlockStep
    \/ SkipStep
    \/ BlockReturn
    \/ StreamStep
    \/ StreamExit

SpecLoops == InitLoops /\ [][NextLoops]_vars

\* a scanner that can take a step takes one: the interpreter runs the loop
SpecLoopsFair == SpecLoops /\ WF_vars(NextLoops)

\* C33: grab_date_run collects one contiguous run after the header position.
\* Step by step: a major section header ends the scan at once and adds
\* nothing, started or not; a table-header row is stepped over and never ends
\* the run; a date-led line is added and starts the run; any other line (noise
\* or a check-summary line) is stepped over before the first date-led line and
\* ends the run after it. So the result is the date-led lines of one stretch.
GrabAt == entry = "grab_date_run" /\ pc = "loop" /\ f_out.j < Len(lines)

C33_ContiguousRun ==
    /\ [][GrabAt =>
          LET raw == lines[f_out.j + 1]
              ends == pc' = "done" /\ f_out' = f_out
              skips == /\ pc' = "loop"
                       /\ f_out' = [f_out EXCEPT !.j = @ + 1]
              adds == /\ pc' = "loop"
                      /\ f_out' = [f_out EXCEPT !.j = @ + 1, !.started = TRUE,
                                                !.out = Append(@, raw)]
          IN  /\ MAJOR_STOP(raw) => ends
              /\ ~MAJOR_STOP(raw) /\ HEADER_ROW(raw) => skips
              /\ ~MAJOR_STOP(raw) /\ ~HEADER_ROW(raw) /\ DATE_LINE(raw).ok => adds
              /\ ~MAJOR_STOP(raw) /\ ~HEADER_ROW(raw) /\ ~DATE_LINE(raw).ok
                 => IF f_out.started THEN ends ELSE skips]_vars
    /\ [](entry = "grab_date_run" /\ pc = "done"
           => f_out.out = grab_date_run(lines, f_in.start_idx))

\* a run that began after a check-summary line, went over a table-header row
\* and ended at a blank line
C33_Witness ==
    /\ entry = "grab_date_run" /\ pc = "done"
    /\ f_in.start_idx = 0
    /\ lines = << DepHdr, ChkSummary, DepRow, BreakB, DepRow, Blank >>
    /\ f_out.out = << DepRow, DepRow >> /\ f_out.j = 5


\* C38: on every finite input the line scanners terminate. Each scanner
\* reaches its end; an iteration of the stream parser either moves on to the
\* next line or is the hard stop, so a line is handled once and N lines take at
\* most N iterations; an iteration of grab_date_run either moves j on by one or
\* ends the loop; an iteration of the fallback scan moves j on by one or hands
\* over to the inner loop, which moves k on from j + 1 and gives j a greater
\* value; no index passes the end of the input.
C38_ScannersTerminate ==
    /\ <>(pc = "done")
    /\ [](/\ i <= Len(lines)
          /\ entry = "grab_date_run" => f_out.j <= Len(lines)
          /\ entry = "parse_dep_add" => f_out.j <= Len(lines) /\ f_out.k <= Len(lines))
    /\ [][/\ entry = "parse_stream_simple"
             => \/ i' = i + 1 /\ i < Len(lines) /\ pc' = "loop"
                \/ i' = i /\ pc' = "done"
          /\ entry = "grab_date_run"
             => \/ f_out'.j = f_out.j + 1 /\ f_out.j < Len(lines) /\ pc' = "loop"
                \/ f_out'.j = f_out.j /\ pc' = "done"
          /\ entry = "parse_dep_add" /\ pc = "loop"
             => \/ f_out'.j = f_out.j + 1 /\ pc' = "loop"
                \/ f_out'.j = f_out.j /\ f_out'.k = f_out.j + 1 /\ pc' = "skip"
                \/ f_out'.j = f_out.j /\ pc' = "done"
          /\ entry = "parse_dep_add" /\ pc = "skip"
             => \/ f_out'.k = f_out.k + 1 /\ f_out'.j = f_out.j /\ pc' = "skip"
                \/ f_out'.j = f_out.k /\ f_out.k > f_out.j /\ pc' = "loop"]_vars

\* the stream parser at its hard stop, with a line left unread
C38_Witness ==
    /\ entry = "parse_stream_simple" /\ pc = "done"
    /\ lines = << ChkRow, DepRow, Blank, DepRow, BreakB >>
    /\ i = 4 /\ sec_idx = 3 /\ Len(out) = 3


\* ------------------------------------------------- merge_dedup, call by call

\* the rows merge_dedup is called with: keys that differ in the date, the
\* description or the amount, one key with two categories, one row whose
\* date is no date
TxOf(date, desc, amount, cat) == [date |-> date, desc |-> desc, cat |-> cat, amount |-> amount]
MergeRows ==
    { TxOf(<< 2019, 1, 5 >>, << W("DEPOSIT") >>, 50000, "Other Deposit"),
      TxOf(<< 2019, 1, 5 >>, << W("DEPOSIT") >>, 50000, "Payroll"),
      TxOf(<< 2019, 1, 5 >>, << W("DEPOSIT") >>, -10000, "Other"),
      TxOf(<< 2019, 1, 5 >>, << W("NETFLIX") >>, 50000, "Other"),
      TxOf(<< 2019, 1, 4 >>, << W("DEPOSIT") >>, 50000, "Other Deposit"),
      TxOf(<< 2019, 2, 30 >>, << W("DEPOSIT") >>, 50000, "Other Deposit") }
MaxMergeRows == 2
NewRows == UNION { [1..n -> MergeRows] : n \in 0..MaxMergeRows }
\* a sheet holds what an earlier merge wrote
OldSheets == { merge_dedup(<< >>, rows) : rows \in NewRows }

\* merged = merge_dedup(old, new)
MergeCall ==
    /\ entry = "merge_dedup" /\ pc = "call"
    /\ df' = merge_dedup(f_in.old, f_in.new)
    /\ pc' = "merged"
    /\ UNCHANGED << anchorVars, lines, streamVars, scanVars, yearVars, callVars, runVars >>

\* merge_dedup(merged, new): the next run on the same statement
MergeAgain ==
    /\ entry = "merge_dedup" /\ pc = "merged"
    /\ f_out' = merge_dedup(df, f_in.new)
    /\ pc' = "done"
    /\ UNCHANGED << anchorVars, lines, streamVars, df, scanVars, yearVars, f_in, runVars >>

InitMerge ==
    /\ entry = "merge_dedup" /\ pc = "call"
    /\ end_year = 2019 /\ end_month = 1
    /\ lines = << >>
    /\ i = 0 /\ sec_idx = -1 /\ gap_after_atm = FALSE /\ out = << >>
    /\ df = << >>
    /\ seen = {} /\ chk_out = << >>
    /\ y_in = << 0, 0, 0 >> /\ y_out = 0
    /\ \E o \in OldSheets, n \in NewRows : f_in = [old |-> o, new |-> n]
    /\ f_out = << >>
    /\ file = Null /\ force = FALSE /\ rules = RulesFile(TRUE, << >>) /\ wb = Null /\ disk = Null
    /\ begin_bal = Null /\ end_bal = Null /\ runs = 0

NextMerge ==
    \/ MergeCall
    \/ MergeAgain

SpecMerge == InitMerge /\ [][NextMerge]_vars

\* C35: merge_dedup returns rows no two of which have the same (date,
\* description, amount); every key with a date among the old and the new rows
\* is there, with the first row of that key in old-then-new order, so a row of
\* the sheet wins over a parsed row and two equal rows of one statement are one
\* row; and merging the same new rows once more gives the same rows.
KeyOf(r) == << r.date, r.desc, r.amount >>
MergeDone == entry = "merge_dedup" /\ pc \in {"merged", "done"}

C35_FirstWinsIdempotent ==
    /\ MergeDone =>
         LET comb == f_in.old \o f_in.new
             firstOf(key) == comb[Least({ n \in 1..Len(comb) : KeyOf(comb[n]) = key })]
         IN  /\ \A a, b \in 1..Len(df) : KeyOf(df[a]) = KeyOf(df[b]) => a = b
             /\ \A n \in 1..Len(df) : df[n] = firstOf(KeyOf(df[n]))
             /\ \A n \in 1..Len(comb) :
                   ValidDate(comb[n].date) => \E a \in 1..Len(df) : KeyOf(df[a]) = KeyOf(comb[n])
    /\ entry = "merge_dedup" /\ pc = "done" =>
         /\ Len(f_out) = Len(df)
         /\ { f_out[n] : n \in 1..Len(f_out) } = { df[n] : n \in 1..Len(df) }

\* a sheet row kept although the statement gives its key another category,
\* and a row the statement holds twice merged into one
C35_Witness ==
    /\ entry = "merge_dedup" /\ pc = "done"
    /\ Len(f_in.old) = 1 /\ Len(f_in.new) = 2
    /\ KeyOf(f_in.new[1]) = KeyOf(f_in.old[1]) /\ f_in.new[1].cat # f_in.old[1].cat
    /\ f_in.new[2] = f_in.new[1]
    /\ f_out = f_in.old


\* ----------------------------------- iter_deposits_additions, line by line

\* re.search(r"Deposits?", line, re.I)
HasDeposit(line) == \E j \in 1..Len(line) : HasIn(line[j], "DEPOSIT")

\* re.search(r"(Additions?|Credits?)", line, re.I)
HasAddition(line) ==
    \E j \in 1..Len(line) : HasIn(line[j], "ADDITION") \/ HasIn(line[j], "CREDIT")

\* NEXT_SEC.search(line): the title of a next section at the start of the line
NEXT_SEC(line) ==
    LET Is(k, ws) == k <= Len(line) /\ \E w \in ws : IsWord(line[k], w)
    IN  \/ Is(1, {"CHECK", "CHECKS"}) /\ Is(2, {"PAID"})
        \/ /\ Is(1, {"ELECTRONIC"})
           /\ Is(2, {"WITHDRAWAL", "WITHDRAWALS", "PAYMENT", "PAYMENTS"})
        \/ /\ Is(1, {"DEBIT"}) /\ Is(2, {"CARD"})
           /\ Is(3, {"PURCHASE", "PURCHASES", "TRANSACTION", "TRANSACTIONS"})
        \/ Is(1, {"ATM"}) /\ Is(2, {"WITHDRAWAL", "WITHDRAWALS"})

\* SUBTOTAL_RE.search(line): ^\s*Total\s+
SUBTOTAL_RE(line) == Len(line) >= 2 /\ IsWord(line[1], "TOTAL")

\* HEADER_RE.search(line): ^(DATE|DESCRIPTION|AMOUNT)\b
HEADER_RE(line) ==
    Len(line) >= 1 /\ \E w \in {"DATE", "DESCRIPTION", "AMOUNT"} : IsWord(line[1], w)

\* DATE_TOKEN.match(line): the pattern of DATE_LINE
DATE_TOKEN(line) == DATE_LINE(line).ok

\* one iteration of the for loop on the locals g and the line of the
\* iteration; out holds the lines yielded so far
IterBody(g, line) ==
    IF ~g.in_sec
    THEN IF ~g.header_armed /\ HasDeposit(line) THEN [g EXCEPT !.header_armed = TRUE]
         ELSE IF g.header_armed /\ HasAddition(line)
              THEN [g EXCEPT !.in_sec = TRUE, !.header_armed = FALSE]
         ELSE IF DEP_ADD_HDR(line) THEN [g EXCEPT !.in_sec = TRUE]
         ELSE g
    ELSE IF NEXT_SEC(line) THEN [g EXCEPT !.brk = TRUE]
    ELSE IF line = << >> \/ SUBTOTAL_RE(line) \/ HEADER_RE(line) THEN g
    ELSE IF DATE_TOKEN(line) THEN [g EXCEPT !.out = Append(@, line)]
    ELSE g

\* the documents: headers on one line and on two, date-led lines (one with
\* the word CREDIT), a blank line, the title of the next section
MaxIterLines == 4
IterLines == { DepHdr, DepHdrTop, DepHdrBottom, DepRow, OnlinePay, Blank, ChkPaid }
IterDocs == UNION { [1..n -> IterLines] : n \in 0..MaxIterLines }

\* for idx, raw in enumerate(lines, start=1): (f_out.idx lines are done)
IterStep ==
    /\ entry = "iter_deposits_additions" /\ pc = "loop"
    /\ f_out.idx < Len(lines)
    /\ LET nx == IterBody(f_out, lines[f_out.idx + 1])
       IN  /\ f_out' = [nx EXCEPT !.idx = @ + 1, !.brk = FALSE]
           /\ pc' = IF nx.brk THEN "done" ELSE "loop"
    /\ UNCHANGED << loopRest, streamVars >>

\* the lines are exhausted
IterReturn ==
    /\ entry = "iter_deposits_additions" /\ pc = "loop"
    /\ f_out.idx >= Len(lines)
    /\ pc' = "done"
    /\ UNCHANGED << loopRest, streamVars, f_out >>

InitIter ==
    /\ entry = "iter_deposits_additions" /\ pc = "loop"
    /\ end_year = 2019 /\ end_month = 1
    /\ lines \in IterDocs
    /\ i = 0 /\ sec_idx = -1 /\ gap_after_atm = FALSE /\ out = << >>
    /\ df = << >>
    /\ seen = {} /\ chk_out = << >>
    /\ y_in = << 0, 0, 0 >> /\ y_out = 0
    /\ f_in = << >>
    /\ f_out = [idx |-> 0, in_sec |-> FALSE, header_armed |-> FALSE, out |-> << >>,
                brk |-> FALSE]
    /\ file = Null /\ force = FALSE /\ rules = RulesFile(TRUE, << >>) /\ wb = Null /\ disk = Null
    /\ begin_bal = Null /\ end_bal = Null /\ runs = 0

NextIter ==
    \/ IterStep
    \/ IterReturn

SpecIter == InitIter /\ [][NextIter]_vars

\* C36: iter_deposits_additions enters the section on a deposits header, on
\* one line or split across two lines, and yields every date-led line that
\* follows until the next clear section header: with the first header ending
\* at line h and the first next-section title after it at line e, the lines
\* yielded are the date-led lines between h and e, and nothing is yielded
\* when there is no header.
HeaderEnds(lines_) ==
    { n \in 1..Len(lines_) :
        \/ ~DATE_TOKEN(lines_[n]) /\ DEP_ADD_HDR(lines_[n])
        \/ /\ n >= 2
           /\ ~DATE_TOKEN(lines_[n - 1]) /\ HasDeposit(lines_[n - 1])
           /\ ~DATE_TOKEN(lines_[n]) /\ HasAddition(lines_[n]) }

SectionLines(lines_) ==
    IF HeaderEnds(lines_) = {} THEN << >>
    ELSE LET h == Least(HeaderEnds(lines_))
             e == Least({ n \in (h + 1)..Len(lines_) : NEXT_SEC(lines_[n]) }
                          \cup { Len(lines_) + 1 })
         IN  SelectSeq(SubSeq(lines_, h + 1, e - 1), DATE_TOKEN)

C36_YieldsSection ==
    entry = "iter_deposits_additions" /\ pc = "done" => f_out.out = SectionLines(lines)


\* C34: the duplicate-ingest guard. After a run that ingested a file and
\* saved the workbook, a run on the same file without --force finds its
\* signature in the Ingest Log and is skipped: it ends at once and leaves the
\* workbook as it was read.
C34_DuplicateSkipped ==
    [][(/\ entry = "main" /\ pc = "done" /\ runs' = runs + 1
        /\ file' = file /\ ~force')
          => pc' = "done" /\ wb' = disk /\ disk' = disk]_vars


\* ------------------------------------- pdf_clip_checking_pages, page by page

\* A page is its rows of words from top to bottom; row n has top n and the
\* page height is one more than the number of rows.  A row is "hdr" when one
\* of HDR_RE_LIST is found in it, "sav" when one of SAV_RE_LIST is, "txt"
\* otherwise.
PageKinds ==
    { << "txt", "txt" >>,
      << "sav", "txt" >>,
      << "txt", "hdr", "txt" >>,
      << "hdr", "txt", "sav", "txt" >>,
      << "sav", "txt", "hdr", "txt" >>,
      << "hdr", "txt", "hdr", "txt" >> }
MaxPages == 3
Pdfs == UNION { [1..n -> PageKinds] : n \in 0..MaxPages }

\* _find_y_of_phrase(page, regexes): the tops of the rows with a match
find_y_of_phrase(page, kind) == { y \in 1..Len(page) : page[y] = kind }

\* the text of the band from y_start down to y_end, y_end left out
BandText(page, y_start, y_end) ==
    [src |-> "band", rows |-> SubSeq(page, y_start, y_end - 1)]

\* pages_txt[i]: the text pdftotext gave for the page
OrigText(page) == [src |-> "raw", rows |-> page]

\* one iteration of the loop over pdf.pages: what it adds to new_pages
ClipPage(page) ==
    LET ys_checking == find_y_of_phrase(page, "hdr")
        ys_savings == find_y_of_phrase(page, "sav")
        height == Len(page) + 1
        y_start == Least(ys_checking)
        y_end == IF ys_savings # {} /\ Least(ys_savings) > y_start
                 THEN Least(ys_savings) ELSE height
    IN  IF ys_checking = {} THEN << >>
        ELSE << BandText(page, y_start, y_end) >>

\* for i, page in enumerate(pdf.pages): (f_out.i pages are done)
ClipStep ==
    /\ entry = "pdf_clip_checking_pages" /\ pc = "loop"
    /\ f_out.i < Len(f_in.pages)
    /\ f_out' = [i |-> f_out.i + 1,
                 new_pages |-> f_out.new_pages \o ClipPage(f_in.pages[f_out.i + 1])]
    /\ UNCHANGED << pc, loopRest, streamVars >>

\* the pages rebuilt into lines
ClipReturn ==
    /\ entry = "pdf_clip_checking_pages" /\ pc = "loop"
    /\ f_out.i >= Len(f_in.pages)
    /\ pc' = "done"
    /\ UNCHANGED << loopRest, streamVars, f_out >>

\* if pdfplumber is None: return raw_lines
ClipUnavailable ==
    /\ entry = "pdf_clip_checking_pages" /\ pc = "call"
    /\ f_out' = [i |-> 0,
                 new_pages |-> [n \in 1..Len(f_in.pages) |-> OrigText(f_in.pages[n])]]
    /\ pc' = "done"
    /\ UNCHANGED << loopRest, streamVars >>

InitClip ==
    /\ entry = "pdf_clip_checking_pages"
    /\ pc \in {"call", "loop"}
    /\ end_year = 2019 /\ end_month = 1
    /\ lines = << >>
    /\ i = 0 /\ sec_idx = -1 /\ gap_after_atm = FALSE /\ out = << >>
    /\ df = << >>
    /\ seen = {} /\ chk_out = << >>
    /\ y_in = << 0, 0, 0 >> /\ y_out = 0
    /\ \E p \in Pdfs : f_in = [pages |-> p]
    /\ f_out = [i |-> 0, new_pages |-> << >>]
    /\ file = Null /\ force = FALSE /\ rules = RulesFile(TRUE, << >>) /\ wb = Null /\ disk = Null
    /\ begin_bal = Null /\ end_bal = Null /\ runs = 0

NextClip ==
    \/ ClipStep
    \/ ClipReturn
    \/ ClipUnavailable

SpecClip == InitClip /\ [][NextClip]_vars

\* C37: pdf_clip_checking_pages keeps the page order; a page without a
\* checking header is in the output with its original text, it is not
\* removed; a page with a checking header is replaced by the text of the band
\* from the header down to the first savings banner, or to the page bottom.
HasHeader(page) == find_y_of_phrase(page, "hdr") # {}

C37_PagesKept ==
    entry = "pdf_clip_checking_pages" /\ pc = "done" =>
       /\ Len(f_out.new_pages) = Len(f_in.pages)
       /\ \A n \in 1..Len(f_in.pages) :
             LET page == f_in.pages[n]
                 got == f_out.new_pages[n]
             IN  \/ got = OrigText(page)
                 \/ /\ HasHeader(page) /\ got.src = "band"
                    /\ got.rows # << >> /\ got.rows[1] = "hdr"
                    /\ \E e \in 1..(Len(page) + 1) :
                          /\ got.rows = SubSeq(page, Least(find_y_of_phrase(page, "hdr")), e - 1)
                          /\ e = Len(page) + 1 \/ page[e] = "sav"


\* C39: every final record has a category that is not blank. A record of the
\* deposits section gets the category of categorize_deposit whatever the rules
\* are; any other record gets the category of the first supplied rule that
\* holds, else that of the built-in checks, else "Other". So the section
\* defaults for categories still blank are never assigned: no record is
\* "Card/ATM" or "Electronic", and "Checks" comes from the CHECK # test only.
NoBuiltIn(desc) ==
    /\ ~StartsCheckNo(upper(desc))
    /\ \A n \in 1..Len(DEFAULT_CHECKS) : ~DefaultCheckHolds(DEFAULT_CHECKS[n], upper(desc))

C39_CategoryNeverBlank ==
    /\ [](entry = "main" /\ wb # Null => \A n \in 1..Len(wb.all) : wb.all[n].cat # "")
    /\ [][entry = "main" /\ pc = "categorize" /\ pc' = "signing" =>
            \A n \in 1..Len(df) :
               LET r == df[n]
                   c == df'[n].cat
                   byRule == apply_rules(r.desc, rules.rows)
               IN  /\ c # "" /\ c \notin {"Card/ATM", "Electronic"}
                   /\ r.src = "DEP_ADD" => c = categorize_deposit(r.desc)
                   /\ r.src # "DEP_ADD" /\ byRule # Null => c = byRule.v
                   /\ r.src # "DEP_ADD" /\ byRule = Null /\ NoBuiltIn(r.desc) => c = "Other"
                   /\ c = "Checks" => r.src # "DEP_ADD" /\ StartsCheckNo(upper(r.desc))]_vars

\* a deposit a supplied rule holds for, categorized as a deposit, in a run
\* after one that left a record "Other" in the ledger
C39_Witness ==
    /\ entry = "main" /\ pc = "signing"
    /\ \E n \in 1..Len(df) :
          /\ df[n].src = "DEP_ADD" /\ apply_rules(df[n].desc, rules.rows) # Null
          /\ df[n].cat = "Deposit"
    /\ \E n \in 1..Len(wb.all) : wb.all[n].cat = "Other" /\ wb.all[n].amount < 0

====
